---- MODULE Spec2Model ----
(***************************************************************************)
(* A model of the polybot trading engine core: the OrderBook price ladder, *)
(* the Channel (lifecycle, event dispatch, order forwarding), the          *)
(* StrategyRouter / StrategyView, the ExecutionLink critical path, the     *)
(* OrderManager lifecycle, the LimitStore, the OrderBook queries and the   *)
(* Polymarket DeltaCache.                                                  *)
(*                                                                         *)
(* Prices, volumes and quantities are the source's numbers on an integer   *)
(* grid (ticks / lots).  Every handler is one action; an exception raised  *)
(* by a handler is recorded in last_result and keeps the state changes     *)
(* made before the raise, as in Python.                                    *)
(***************************************************************************)
EXTENDS Integers, Sequences, FiniteSets, TLC

(* ------------------------------ bounds -------------------------------- *)
MaxVolume == 2
MaxStrategies == 2
MaxEvents == 2
MaxBatch == 2
MaxSends == 1
MaxLimit == 2

Instruments == {"A", "B"}
Sides == {"buy", "sell"}
(* the price grid of the free-standing book: room for a front, a middle and
   a back insertion *)
Prices == {1, 2, 3}

(* src/polybot/common/types.py *)
FAILED_ORDER_ID == -1

VARIABLES
    (* a free-standing OrderBook instance, what its last update returned and
       its last query *)
    ob, ob_ret, ob_query,
    (* Channel *)
    status, instruments, orderbooks, subscriptions, strategy_views, strategies,
    (* the ContextProvider the last event handler built *)
    context,
    (* what the Channel's collaborators observed *)
    trace, n_events,
    (* ExecutionLink, OrderManager, order id generator, venue adapter *)
    limit_store, orders, exchange_order_ids, order_id_generator, exec_trace,
    (* how the last call on the Channel, ExecutionLink or OrderManager ended *)
    last_result,
    (* LimitStore *)
    limits, limit_call,
    (* DeltaCache *)
    delta_cache, delta_ret,
    (* the last lookup made on the OrderManager, a second OrderManager of the
       same process, and the ids add_order has returned so far *)
    om_query, other_orders, issued,
    (* PositionManager and the add_position calls made on it *)
    positions, additions,
    (* the order book as the Polymarket feed last reported it *)
    feed

bookVars == <<ob, ob_ret, ob_query>>
channelVars == <<status, instruments, orderbooks, subscriptions, strategy_views,
                 strategies, context, trace, n_events>>
execVars == <<limit_store, orders, exchange_order_ids, order_id_generator,
              exec_trace>>
limitVars == <<limits, limit_call>>
deltaVars == <<delta_cache, delta_ret>>
managerVars == <<om_query, other_orders, issued>>
positionVars == <<positions, additions>>
feedVars == <<feed>>
vars == <<bookVars, channelVars, execVars, limitVars, deltaVars, managerVars, positionVars,
          feedVars,
          last_result>>

(* ------------------------------ helpers ------------------------------- *)
(* an empty dict *)
EmptyMap == [k \in {} |-> 0]

(* dict[k] = v *)
Put(map, k, v) == [x \in DOMAIN map \cup {k} |-> IF x = k THEN v ELSE map[x]]

(* how a call ended: with a value, or with an exception *)
Returned(v) == [kind |-> "return", value |-> v]

Raised(e) == [kind |-> "raise", exc |-> e]

RemoveAt(s, i) == SubSeq(s, 1, i - 1) \o SubSeq(s, i + 1, Len(s))

InsertAt(s, i, x) == SubSeq(s, 1, i - 1) \o <<x>> \o SubSeq(s, i, Len(s))

(* the first of the list positions idx, 0 when there is none *)
FirstIndex(idx) ==
    IF idx = {} THEN 0 ELSE CHOOSE i \in idx : \A j \in idx : i <= j

(* ------------------------------ OrderBook ----------------------------- *)
Level(p, v) == [price |-> p, volume |-> v]

EmptyBook == [bids |-> <<>>, asks |-> <<>>]

SideLevels(book, side) == IF side = "buy" THEN book.bids ELSE book.asks

WithSideLevels(book, side, levels) ==
    IF side = "buy" THEN [book EXCEPT !.bids = levels]
                    ELSE [book EXCEPT !.asks = levels]

(* OrderBook.update_level on one side's list *)
UpdateLevels(levels, price, volume, reverse) ==
    LET found == FirstIndex({i \in 1..Len(levels) : levels[i].price = price})
        pos == IF reverse
               THEN FirstIndex({i \in 1..Len(levels) : price > levels[i].price})
               ELSE FirstIndex({i \in 1..Len(levels) : price < levels[i].price})
    IN  IF found # 0
        THEN IF volume = 0
             THEN RemoveAt(levels, found)
             ELSE [levels EXCEPT ![found].volume = volume]
        ELSE IF volume > 0
             THEN IF pos # 0 THEN InsertAt(levels, pos, Level(price, volume))
                             ELSE Append(levels, Level(price, volume))
             ELSE levels

update_level(book, price, volume, side) ==
    WithSideLevels(book, side,
        UpdateLevels(SideLevels(book, side), price, volume, side = "buy"))

(* adjust_volume removing a level only when its volume falls below 0 *)
AdjustLevelsBelowZero(levels, price, volume_delta) ==
    LET found == FirstIndex({i \in 1..Len(levels) : levels[i].price = price})
        new_volume == levels[found].volume + volume_delta
    IN  IF found = 0 THEN <<levels, FALSE>>
        ELSE IF new_volume < 0
             THEN <<RemoveAt(levels, found), TRUE>>
             ELSE <<[levels EXCEPT ![found].volume = new_volume], TRUE>>

(* OrderBook.adjust_volume on one side's list: <<levels', found>> *)
AdjustLevels(levels, price, volume_delta) ==
    LET found == FirstIndex({i \in 1..Len(levels) : levels[i].price = price})
        new_volume == levels[found].volume + volume_delta
    IN  IF found = 0 THEN <<levels, FALSE>>
        ELSE IF new_volume <= 0
             THEN <<RemoveAt(levels, found), TRUE>>
             ELSE <<[levels EXCEPT ![found].volume = new_volume], TRUE>>

adjust_volume(book, price, volume_delta, side) ==
    LET r == AdjustLevels(SideLevels(book, side), price, volume_delta)
    IN  [book |-> WithSideLevels(book, side, r[1]), found |-> r[2]]

(* the largest volume a level of the book holds (bounds the model only) *)
VolumesWithin(book) ==
    /\ \A i \in 1..Len(book.bids) : book.bids[i].volume <= MaxVolume
    /\ \A i \in 1..Len(book.asks) : book.asks[i].volume <= MaxVolume

UpdateLevel ==
    /\ \E price \in Prices, volume \in (-1)..MaxVolume, side \in Sides :
          /\ ob' = update_level(ob, price, volume, side)
          /\ ob_ret' = "None"
          /\ ob_query' = [op |-> "update_level", price |-> price,
                          volume |-> volume, side |-> side]
    /\ UNCHANGED <<deltaVars, managerVars, positionVars, feedVars,
                   channelVars, execVars, limitVars, last_result>>

AdjustVolume ==
    /\ \E price \in Prices, delta \in (-MaxVolume)..MaxVolume, side \in Sides :
          LET r == adjust_volume(ob, price, delta, side)
          IN  /\ VolumesWithin(r.book)
              /\ ob' = r.book
              /\ ob_ret' = IF r.found THEN "True" ELSE "False"
              /\ ob_query' = [op |-> "adjust_volume", price |-> price,
                              volume_delta |-> delta, side |-> side]
    /\ UNCHANGED <<deltaVars, managerVars, positionVars, feedVars,
                   channelVars, execVars, limitVars, last_result>>

(* ------------------------------ LimitStore ---------------------------- *)
Limit(iid, max_position_size, max_nominal_position_size) ==
    [instrument_id |-> iid, max_position_size |-> max_position_size,
     max_nominal_position_size |-> max_nominal_position_size]

LimitCheckResult(allowed) == [kind |-> "LimitCheckResult", allowed |-> allowed]

(* what a method whose body is `...` returns *)
NoneValue == [kind |-> "None"]

(* LimitStore.set_limit *)
set_limit(lims, iid, limit) == Put(lims, iid, limit)

(* LimitStore defines __init__, get_limit and set_limit only; the other three
   methods are the ones it inherits from ILimitStore, whose bodies are `...`:
   they read nothing, change nothing and return None. *)
try_reserve_capacity(lims, iid, side, volume, price) ==
    [limits |-> lims, result |-> NoneValue]

release_reserved_capacity(lims, iid, side, volume, price) ==
    [limits |-> lims, result |-> NoneValue]

apply_fill(lims, iid, side, reserved_price, reserved_volume, fill_price, fill_volume) ==
    [limits |-> lims, result |-> NoneValue]

(* The ILimitStore an ExecutionLink is constructed with: the LimitStore class,
   or another implementation of the protocol (the tests' MockLimitStore, a
   venue-specific risk engine), which answers with a LimitCheckResult. *)
LimitStoreKinds == {"LimitStore", "ILimitStore"}

TryReserveResults(kind, iid, side, volume, price) ==
    IF kind = "LimitStore"
    THEN {try_reserve_capacity(EmptyMap, iid, side, volume, price).result}
    ELSE {LimitCheckResult(TRUE), LimitCheckResult(FALSE)}

(* --------------------------- OrderBook queries ------------------------- *)
(* OrderBook.best_bid, OrderBook.best_ask: the first level or None *)
best_bid(book) == IF book.bids # <<>> THEN book.bids[1] ELSE NoneValue

best_ask(book) == IF book.asks # <<>> THEN book.asks[1] ELSE NoneValue

(* the quotient num / den, kept exact *)
Quotient(num, den) == [kind |-> "value", num |-> num, den |-> den]

(* OrderBook.spread: a Level is always true in a boolean context *)
spread(book) ==
    IF best_bid(book) # NoneValue /\ best_ask(book) # NoneValue
    THEN best_ask(book).price - best_bid(book).price
    ELSE 0

(* OrderBook.midpoint *)
midpoint(book) ==
    IF best_bid(book) # NoneValue /\ best_ask(book) # NoneValue
    THEN Quotient(best_bid(book).price + best_ask(book).price, 2)
    ELSE NoneValue

(* OrderBook.spread_bps: `mid > 0` with mid None is a TypeError *)
spread_bps(book) ==
    LET mid == midpoint(book)
    IN  IF mid = NoneValue THEN Raised("TypeError")
        ELSE IF mid.num > 0
        THEN Returned(Quotient(spread(book) * mid.den * 10000, mid.num))
        ELSE Returned(0)

Min(a, b) == IF a <= b THEN a ELSE b

(* the loop of OrderBook.impact_price, lines 82-87, from level i on *)
RECURSIVE TakeLevels(_, _, _, _)
TakeLevels(levels, i, remaining, weighted_sum) ==
    IF i > Len(levels) \/ remaining <= 0
    THEN [remaining |-> remaining, weighted_sum |-> weighted_sum]
    ELSE LET taken == Min(remaining, levels[i].volume)
         IN  TakeLevels(levels, i + 1, remaining - taken,
                        weighted_sum + taken * levels[i].price)

(* OrderBook.impact_price: the division by a volume of 0 raises *)
impact_price(book, volume, side) ==
    LET levels == IF side = "buy" THEN book.asks ELSE book.bids
        walked == TakeLevels(levels, 1, volume, 0)
    IN  IF walked.remaining > 0 THEN NoneValue
        ELSE IF volume = 0 THEN [kind |-> "raise", error |-> "ZeroDivisionError"]
        ELSE Quotient(walked.weighted_sum, volume)

(* ------------------------------ OrderManager -------------------------- *)
OrderRequest(iid, side, price, quantity) ==
    [instrument_id |-> iid, side |-> side, order_type |-> "limit",
     price |-> price, quantity |-> quantity]

ActiveOrderStatus == {"INFLIGHT", "ACTIVE", "INFLIGHT_CANCELLED"}

(* order_id_generator.generate_order_id *)
generate_order_id(gen) == gen + 1

(* add_order numbering the orders of each OrderManager on its own *)
add_order_own_counter(ords, gen, order) ==
    LET order_id == Cardinality(DOMAIN ords) + 1
    IN  [orders |-> Put(ords, order_id,
                        [instrument_id |-> order.instrument_id,
                         order_id |-> order_id,
                         side |-> order.side,
                         order_type |-> order.order_type,
                         price |-> order.price,
                         quantity |-> order.quantity,
                         status |-> "INFLIGHT",
                         filled_quantity |-> 0,
                         exchange_order_id |-> ""]),
         order_id_generator |-> gen,
         order_id |-> order_id]

(* OrderManager.add_order: <<orders', order_id_generator', order_id>> *)
add_order(ords, gen, order) ==
    LET order_id == generate_order_id(gen)
    IN  [orders |-> Put(ords, order_id,
                        [instrument_id |-> order.instrument_id,
                         order_id |-> order_id,
                         side |-> order.side,
                         order_type |-> order.order_type,
                         price |-> order.price,
                         quantity |-> order.quantity,
                         status |-> "INFLIGHT",
                         filled_quantity |-> 0,
                         exchange_order_id |-> ""]),
         order_id_generator |-> order_id,
         order_id |-> order_id]

(* OrderManager.get_order_id_from_exchange_order_id: dict.get *)
get_order_id_from_exchange_order_id(eids, exchange_order_id) ==
    IF exchange_order_id \in DOMAIN eids
    THEN Returned(eids[exchange_order_id])
    ELSE Returned("None")

(* OrderManager.get_exchange_order_id_from_order_id: a subscript of orders *)
get_exchange_order_id_from_order_id(ords, order_id) ==
    IF order_id \in DOMAIN ords
    THEN Returned(ords[order_id].exchange_order_id)
    ELSE Raised("KeyError")

(* OrderManager.add_exchange_order_id (order_id known) *)
add_exchange_order_id(ords, eids, order_id, exchange_order_id) ==
    [orders |-> [ords EXCEPT ![order_id].exchange_order_id = exchange_order_id,
                             ![order_id].status = "ACTIVE"],
     exchange_order_ids |-> Put(eids, exchange_order_id, order_id)]

(* OrderManager.add_fill_quantity (order_id known) *)
add_fill_quantity(ords, order_id, fill_quantity) ==
    LET filled == ords[order_id].filled_quantity + fill_quantity
    IN  [ords EXCEPT ![order_id].filled_quantity = filled,
                     ![order_id].status =
                         IF filled = ords[order_id].quantity THEN "FILLED" ELSE @]

(* OrderManager.cancel_requested (order_id known) *)
cancel_requested(ords, order_id) ==
    [ords EXCEPT ![order_id].status = "INFLIGHT_CANCELLED"]

(* OrderManager.order_cancelled (order_id known) *)
order_cancelled(ords, order_id) ==
    [ords EXCEPT ![order_id].status = "CANCELLED"]

(* ------------------------------ ExecutionLink ------------------------- *)
(* The ExecutionLink's collaborators as one record:
   orders, order_id_generator (OrderManager), exec_trace (the calls the link
   made on the limit store, the venue adapter and the order manager). *)
ExecState == [orders |-> orders, order_id_generator |-> order_id_generator,
              exec_trace |-> exec_trace]

(* ExecutionLink.post_send_order *)
post_send_order(ex, order) ==
    LET a == add_order(ex.orders, ex.order_id_generator, order)
    IN  [ex |-> [orders |-> a.orders,
                 order_id_generator |-> a.order_id_generator,
                 exec_trace |-> Append(ex.exec_trace,
                     [op |-> "add_order", order |-> order, order_id |-> a.order_id])],
         result |-> Returned(a.order_id)]

(* send_order without the early return on a denial *)
send_order_ignoring_denial(ex, order, limit_result, venue_ok) ==
    LET reserved == [ex EXCEPT !.exec_trace = Append(@,
                        [op |-> "try_reserve_capacity", order |-> order,
                         result |-> limit_result])]
        sent == [reserved EXCEPT !.exec_trace = Append(@,
                        [op |-> "gem.send_order", order |-> order,
                         ok |-> venue_ok])]
    IN  IF limit_result.kind = "None"
        THEN [ex |-> reserved, result |-> Raised("AttributeError")]
        ELSE IF ~venue_ok
        THEN [ex |-> sent, result |-> Raised("VenueError")]
        ELSE post_send_order(sent, order)

(* send_order recording the order before the venue adapter is called *)
send_order_recording_first(ex, order, limit_result, venue_ok) ==
    LET reserved == [ex EXCEPT !.exec_trace = Append(@,
                        [op |-> "try_reserve_capacity", order |-> order,
                         result |-> limit_result])]
        recorded == post_send_order(reserved, order)
        sent == [recorded.ex EXCEPT !.exec_trace = Append(@,
                        [op |-> "gem.send_order", order |-> order,
                         ok |-> venue_ok])]
    IN  IF limit_result.kind = "None"
        THEN [ex |-> reserved, result |-> Raised("AttributeError")]
        ELSE IF ~limit_result.allowed
        THEN [ex |-> reserved, result |-> Returned(FAILED_ORDER_ID)]
        ELSE IF ~venue_ok
        THEN [ex |-> sent, result |-> Raised("VenueError")]
        ELSE [ex |-> sent, result |-> recorded.result]

(* ExecutionLink.send_order; limit_result is what try_reserve_capacity
   answered, venue_ok whether the venue adapter's send_order returned *)
send_order(ex, order, limit_result, venue_ok) ==
    LET reserved == [ex EXCEPT !.exec_trace = Append(@,
                        [op |-> "try_reserve_capacity", order |-> order,
                         result |-> limit_result])]
        sent == [reserved EXCEPT !.exec_trace = Append(@,
                        [op |-> "gem.send_order", order |-> order,
                         ok |-> venue_ok])]
    IN  IF limit_result.kind = "None"
        THEN [ex |-> reserved, result |-> Raised("AttributeError")]
        ELSE IF ~limit_result.allowed
        THEN [ex |-> reserved, result |-> Returned(FAILED_ORDER_ID)]
        ELSE IF ~venue_ok
        THEN [ex |-> sent, result |-> Raised("VenueError")]
        ELSE post_send_order(sent, order)

(* ExecutionLink.post_cancel_order *)
post_cancel_order(ex, order_id) ==
    [ex EXCEPT !.orders = cancel_requested(@, order_id)]

(* ExecutionLink.cancel_order: the lookup of the exchange order id raises a
   KeyError for an unknown order id *)
cancel_order(ex, order_id) ==
    IF order_id \notin DOMAIN ex.orders
    THEN [ex |-> ex, result |-> Raised("KeyError")]
    ELSE LET exchange_order_id == ex.orders[order_id].exchange_order_id
             cancelled == [ex EXCEPT !.exec_trace = Append(@,
                              [op |-> "gem.cancel_order",
                               exchange_order_id |-> exchange_order_id])]
         IN  [ex |-> post_cancel_order(cancelled, order_id),
              result |-> Returned("None")]

(* ------------------------ StrategyRouter / StrategyView ---------------- *)
(* A StrategyView: the wrapped strategy (its declared instruments), and the
   order books attached to it.  A book is held by reference, and the Channel
   keeps one OrderBook object per instrument id, so a reference is modelled
   by the instrument id whose book it is. *)
StrategyView(declared) ==
    [instruments |-> declared, books_map |-> EmptyMap, books_list |-> <<>>]

(* StrategyView.add_orderbook *)
add_orderbook(view, iid, book_ref) ==
    IF iid \in DOMAIN view.books_map THEN view
    ELSE [view EXCEPT !.books_map = Put(@, iid, book_ref),
                      !.books_list = Append(@, book_ref)]

(* defaultdict(list)[iid] *)
StrategiesOf(strats, iid) == IF iid \in DOMAIN strats THEN strats[iid] ELSE <<>>

RECURSIVE AppendStrategyId(_, _, _)
AppendStrategyId(strats, declared, strategy_id) ==
    IF declared = <<>> THEN strats
    ELSE AppendStrategyId(
             Put(strats, Head(declared),
                 Append(StrategiesOf(strats, Head(declared)), strategy_id)),
             Tail(declared), strategy_id)

(* StrategyRouter.add_strategy: ids are list positions, counted from 0 *)
router_add_strategy(views, strats, declared) ==
    LET strategy_views2 == Append(views, StrategyView(declared))
        strategy_id == Len(strategy_views2) - 1
    IN  [strategy_views |-> strategy_views2,
         strategies |-> AppendStrategyId(strats, declared, strategy_id),
         strategy_id |-> strategy_id]

(* the router's index once defaultdict(list)[iid] was read: a missing key is
   inserted with an empty list *)
IndexRead(strats, iid) ==
    IF iid \in DOMAIN strats THEN strats ELSE Put(strats, iid, <<>>)

(* StrategyRouter.get_strategies_to_run: the ids, in dispatch order *)
get_strategies_to_run(strats, iid) == StrategiesOf(strats, iid)

(* ------------------------------ Channel ------------------------------- *)
ChannelStatus == {"INITIALIZED", "RUNNING", "ERROR", "STOPPED"}

(* an instrument tracked as tradable whatever it is registered with *)
InstrumentWrapperTradable(iid, is_tradable) ==
    [instrument_id |-> iid, is_tradable |-> TRUE]

InstrumentWrapper(iid, is_tradable) ==
    [instrument_id |-> iid, is_tradable |-> is_tradable]

(* the loop of add_strategy registering every declared instrument, known or
   not *)
RECURSIVE AddNewInstrumentsAlways(_, _)
AddNewInstrumentsAlways(ch, declared) ==
    IF declared = <<>> THEN ch
    ELSE LET iid == Head(declared)
         IN  AddNewInstrumentsAlways(
                 [instruments |-> Put(ch.instruments, iid,
                                      InstrumentWrapper(iid, FALSE)),
                  orderbooks |-> Put(ch.orderbooks, iid, EmptyBook),
                  subscriptions |-> Append(ch.subscriptions, iid)],
                 Tail(declared))

(* Channel._add_new_instrument for every declared instrument not yet known
   (the loop of Channel.add_strategy, lines 111-113) *)
RECURSIVE AddNewInstruments(_, _)
AddNewInstruments(ch, declared) ==
    IF declared = <<>> THEN ch
    ELSE LET iid == Head(declared)
             added == [instruments |-> Put(ch.instruments, iid,
                                           InstrumentWrapper(iid, FALSE)),
                       orderbooks |-> Put(ch.orderbooks, iid, EmptyBook),
                       subscriptions |-> Append(ch.subscriptions, iid)]
         IN  AddNewInstruments(
                 IF iid \in DOMAIN ch.instruments THEN ch ELSE added,
                 Tail(declared))

(* the loop of Channel.add_strategy, lines 119-120 *)
RECURSIVE AddOrderbooks(_, _)
AddOrderbooks(view, declared) ==
    IF declared = <<>> THEN view
    ELSE AddOrderbooks(add_orderbook(view, Head(declared), Head(declared)),
                       Tail(declared))

(* Channel.run *)
run(st) == "RUNNING"

(* Channel.stop *)
stop(st) == "STOPPED"

(* Channel.add_strategy on a Channel whose status is INITIALIZED *)
add_strategy(ch, views, strats, declared) ==
    LET ch2 == AddNewInstruments(ch, declared)
        r == router_add_strategy(views, strats, declared)
        view == AddOrderbooks(r.strategy_views[r.strategy_id + 1], declared)
    IN  [instruments |-> ch2.instruments,
         orderbooks |-> ch2.orderbooks,
         subscriptions |-> ch2.subscriptions,
         strategy_views |-> [r.strategy_views EXCEPT ![r.strategy_id + 1] = view],
         strategies |-> r.strategies]

(* get_orderbook handing out a new, empty OrderBook *)
get_orderbook_new(books, iid) == EmptyBook

(* OrderBookManager.get_orderbook (iid known) *)
get_orderbook(books, iid) == books[iid]

(* the status check of add_strategy refusing a Channel in ERROR only *)
MayAddStrategyUnlessError(st) == st # "ERROR"

(* the status check of add_strategy letting a running Channel through *)
MayAddStrategyWhileRunning(st) == st \in {"INITIALIZED", "RUNNING"}

(* Channel.add_strategy may run on this status (line 103) *)
MayAddStrategy(st) == st = "INITIALIZED"

(* Channel._throw_channel_error: the status it leaves (it always raises) *)
throw_channel_error(st) == "ERROR"

(* sorted(levels) and sorted(levels, reverse=True) of OrderBook.populate:
   by price (Level.__lt__), stable *)
InsertSorted(sorted, l, reverse) ==
    LET pos == FirstIndex({i \in 1..Len(sorted) :
                              IF reverse THEN sorted[i].price < l.price
                                         ELSE sorted[i].price > l.price})
    IN  IF pos = 0 THEN Append(sorted, l) ELSE InsertAt(sorted, pos, l)

RECURSIVE SortedLevels(_, _)
SortedLevels(levels, reverse) ==
    IF levels = <<>> THEN <<>>
    ELSE InsertSorted(SortedLevels(SubSeq(levels, 1, Len(levels) - 1), reverse),
                      levels[Len(levels)], reverse)

(* populate that keeps the levels in the order they are given *)
populate_as_given(book, bids, asks) == [bids |-> bids, asks |-> asks]

(* OrderBook.populate *)
populate(book, bids, asks) ==
    [bids |-> SortedLevels(bids, TRUE), asks |-> SortedLevels(asks, FALSE)]

(* the loop of on_order_book_update_event left at the first delta whose
   price is not tracked *)
RECURSIVE ApplyDeltasUntilMiss(_, _)
ApplyDeltasUntilMiss(book, deltas) ==
    IF deltas = <<>> THEN book
    ELSE LET r == adjust_volume(book, Head(deltas).price,
                                Head(deltas).size_delta, Head(deltas).side)
         IN  IF r.found THEN ApplyDeltasUntilMiss(r.book, Tail(deltas)) ELSE book

(* the loop of Channel.on_order_book_update_event, lines 128-133 *)
RECURSIVE ApplyDeltas(_, _)
ApplyDeltas(book, deltas) ==
    IF deltas = <<>> THEN book
    ELSE ApplyDeltas(adjust_volume(book, Head(deltas).price,
                                   Head(deltas).size_delta, Head(deltas).side).book,
                     Tail(deltas))

(* What the execution side answers to the k-th send_order of one event:
   oc.bad is the send that goes wrong (0: none), oc.how the way it does. *)
LimitAnswer(kind, order, k, oc) ==
    IF kind = "LimitStore"
    THEN try_reserve_capacity(EmptyMap, order.instrument_id, order.side,
                              order.quantity, order.price).result
    ELSE LimitCheckResult(~(oc.bad = k /\ oc.how = "denied"))

VenueAnswer(k, oc) == ~(oc.bad = k /\ oc.how = "venue")

(* One dispatch in progress: ex the ExecutionLink's collaborators, trace the
   events delivered, the callbacks made and the orders forwarded (each with
   the number of its event), result how the handler ends,
   sent the number of send_order calls of this event. *)
(* ContextBuilder.build_context *)
build_context(books) ==
    [position_reader |-> "position_reader", order_reader |-> "order_reader",
     orderbooks |-> books]

(* StrategyView._to_strategy_context: the context object it is handed gets
   the view's book map and is passed on *)
to_strategy_context(view, ctx) == [ctx EXCEPT !.orderbooks = view.books_map]

(* the handler's state at the start of its dispatch loop, after
   Channel._build_context *)
Dispatching(ex, tr) ==
    [ex |-> ex, trace |-> tr, result |-> Returned("None"), sent |-> 0,
     context |-> build_context(EmptyMap)]

(* _send_orders catching the exception of a send_order and going on with the
   next order *)
RECURSIVE send_orders_past_failure(_, _, _, _, _)
send_orders_past_failure(d, batch, ev, kind, oc) ==
    IF batch = <<>> THEN d
    ELSE LET order == Head(batch)
             k == d.sent + 1
             r == send_order(d.ex, order, LimitAnswer(kind, order, k, oc),
                             VenueAnswer(k, oc))
         IN  send_orders_past_failure(
                 [ex |-> r.ex,
                  trace |-> Append(d.trace, [ev |-> ev, op |-> "send_order",
                                             order |-> order, result |-> r.result]),
                  result |-> d.result,
                  sent |-> k, context |-> d.context],
                 Tail(batch), ev, kind, oc)

(* _send_orders leaving its loop after the first order *)
send_orders_first_only(d, batch, ev, kind, oc) ==
    IF batch = <<>> \/ d.result.kind = "raise" THEN d
    ELSE LET order == Head(batch)
             k == d.sent + 1
             r == send_order(d.ex, order, LimitAnswer(kind, order, k, oc),
                             VenueAnswer(k, oc))
         IN  [ex |-> r.ex,
              trace |-> Append(d.trace, [ev |-> ev, op |-> "send_order",
                                         order |-> order, result |-> r.result]),
              result |-> IF r.result.kind = "raise" THEN r.result ELSE d.result,
              sent |-> k, context |-> d.context]

(* _send_orders leaving its loop when send_order returns FAILED_ORDER_ID *)
RECURSIVE send_orders_until_denial(_, _, _, _, _)
send_orders_until_denial(d, batch, ev, kind, oc) ==
    IF batch = <<>> \/ d.result.kind = "raise" THEN d
    ELSE LET order == Head(batch)
             k == d.sent + 1
             r == send_order(d.ex, order, LimitAnswer(kind, order, k, oc),
                             VenueAnswer(k, oc))
         IN  send_orders_until_denial(
                 [ex |-> r.ex,
                  trace |-> Append(d.trace, [ev |-> ev, op |-> "send_order",
                                             order |-> order, result |-> r.result]),
                  result |-> IF r.result.kind = "raise" THEN r.result ELSE d.result,
                  sent |-> k, context |-> d.context],
                 IF r.result = Returned(FAILED_ORDER_ID) THEN <<>> ELSE Tail(batch),
                 ev, kind, oc)

(* Channel._send_orders: every order goes to eml.send_order, an exception
   ends the handler *)
RECURSIVE send_orders(_, _, _, _, _)
send_orders(d, batch, ev, kind, oc) ==
    IF batch = <<>> \/ d.result.kind = "raise" THEN d
    ELSE LET order == Head(batch)
             k == d.sent + 1
             r == send_order(d.ex, order, LimitAnswer(kind, order, k, oc),
                             VenueAnswer(k, oc))
         IN  send_orders(
                 [ex |-> r.ex,
                  trace |-> Append(d.trace, [ev |-> ev, op |-> "send_order",
                                             order |-> order, result |-> r.result]),
                  result |-> IF r.result.kind = "raise" THEN r.result ELSE d.result,
                  sent |-> k, context |-> d.context],
                 Tail(batch), ev, kind, oc)

(* The dispatch loop of the three event handlers: each subscribed view is
   called in turn and what it returns is sent before the next is called.
   ids: get_strategies_to_run(iid); replies[p]: the list the p-th call returns *)
RECURSIVE run_strategies(_, _, _, _, _, _, _, _)
(* the dispatch loop left after the first subscribed view *)
run_strategies_first_only(d, ids, p, callback, iid, replies, ev, env) ==
    IF p > Len(ids) \/ d.result.kind = "raise" THEN d
    ELSE LET called == [d EXCEPT !.trace = Append(@,
                           [ev |-> ev, op |-> callback, pos |-> p,
                            strategy |-> ids[p], instrument_id |-> iid,
                            book |-> env.book, returned |-> replies[p]]),
                                 !.context = to_strategy_context(
                                                 env.views[ids[p] + 1], @)]
         IN  send_orders(called, replies[p], ev, env.kind, env.oc)

run_strategies(d, ids, p, callback, iid, replies, ev, env) ==
    IF p > Len(ids) \/ d.result.kind = "raise" THEN d
    ELSE LET called == [d EXCEPT !.trace = Append(@,
                           [ev |-> ev, op |-> callback, pos |-> p,
                            strategy |-> ids[p], instrument_id |-> iid,
                            book |-> env.book, returned |-> replies[p]]),
                                 !.context = to_strategy_context(
                                                 env.views[ids[p] + 1], @)]
         IN  run_strategies(send_orders(called, replies[p], ev, env.kind, env.oc),
                            ids, p + 1, callback, iid, replies, ev, env)

(* values of the variables a specification does not exercise *)
NoQuery == [op |-> "None"]

IdleBook == ob = EmptyBook /\ ob_ret = "None" /\ ob_query = NoQuery

IdleChannel ==
    /\ status = "INITIALIZED"
    /\ instruments = EmptyMap
    /\ orderbooks = EmptyMap
    /\ subscriptions = <<>>
    /\ strategy_views = <<>>
    /\ strategies = EmptyMap
    /\ context = NoneValue
    /\ trace = <<>>
    /\ n_events = 0

IdleExec ==
    /\ limit_store = "LimitStore"
    /\ orders = EmptyMap
    /\ exchange_order_ids = EmptyMap
    /\ order_id_generator = 0
    /\ exec_trace = <<>>

IdleManagers == om_query = NoQuery /\ other_orders = EmptyMap /\ issued = <<>>

IdlePositions == positions = EmptyMap /\ additions = <<>>

IdleFeed == feed = NoneValue

IdleLimits ==
    /\ limits = EmptyMap
    /\ limit_call = [op |-> "None", instrument_id |-> "", side |-> "", volume |-> 0,
                     price |-> 0, result |-> NoneValue]

IdleDelta ==
    /\ delta_cache = EmptyMap
    /\ delta_ret = [op |-> "None", instrument_id |-> "", side |-> "", price |-> 0,
                    size |-> 0, result |-> 0]

(* ---------------- specification of a free-standing OrderBook ----------- *)
NoCall == Returned("None")

InitBook ==
    IdleBook /\ IdleDelta /\ IdleManagers /\ IdlePositions /\ IdleFeed
       /\ IdleChannel /\ IdleExec /\ IdleLimits /\ last_result = NoCall

NextBook == UpdateLevel \/ AdjustVolume

SpecBook == InitBook /\ [][NextBook]_vars

(* ------------- specification of the queries of an OrderBook ----------- *)
(* the books queried: on each side any set of prices, each with a volume,
   bids descending and asks ascending *)
LevelsOf(volumes, reverse) ==
    SortedLevels(SelectSeq([p \in 1..Cardinality(Prices) |-> Level(p, volumes[p])],
                           LAMBDA l : l.volume > 0), reverse)

Books ==
    {[bids |-> LevelsOf(b, TRUE), asks |-> LevelsOf(a, FALSE)] :
        b \in [Prices -> 0..MaxVolume], a \in [Prices -> 0..MaxVolume]}

(* the volumes asked for: none, less than, all of and more than a side holds *)
QueryVolumes == 0..(MaxVolume + 2)

ImpactPrice ==
    /\ \E volume \in QueryVolumes, side \in Sides :
          ob_query' = [op |-> "impact_price", volume |-> volume, side |-> side,
                       result |-> impact_price(ob, volume, side)]
    /\ UNCHANGED <<ob, ob_ret, managerVars, positionVars, feedVars,
                   deltaVars, channelVars, execVars, limitVars,
                   last_result>>

Spread ==
    /\ ob_query' = [op |-> "spread", result |-> Returned(spread(ob))]
    /\ UNCHANGED <<ob, ob_ret, managerVars, positionVars, feedVars,
                   deltaVars, channelVars, execVars,
                   limitVars, last_result>>

SpreadBps ==
    /\ ob_query' = [op |-> "spread_bps", result |-> spread_bps(ob)]
    /\ UNCHANGED <<ob, ob_ret, managerVars, positionVars, feedVars,
                   deltaVars, channelVars, execVars,
                   limitVars, last_result>>

Midpoint ==
    /\ ob_query' = [op |-> "midpoint", result |-> Returned(midpoint(ob))]
    /\ UNCHANGED <<ob, ob_ret, managerVars, positionVars, feedVars,
                   deltaVars, channelVars, execVars,
                   limitVars, last_result>>

InitQuery ==
    /\ ob \in Books
    /\ ob_ret = "None"
    /\ ob_query = NoQuery
    /\ IdleDelta /\ IdleManagers /\ IdlePositions /\ IdleFeed
       /\ IdleChannel /\ IdleExec /\ IdleLimits /\ last_result = NoCall

NextQuery == ImpactPrice \/ Spread \/ SpreadBps \/ Midpoint

SpecQuery == InitQuery /\ [][NextQuery]_vars

(* ---------- specification of the ExecutionLink and OrderManager -------- *)
(* the order requests the link is handed, the order ids and the exchange
   order ids the callers use *)
Quantities == {1, 2}

OrderRequests == {OrderRequest("A", "buy", 1, quantity) : quantity \in Quantities}

(* fills are followed up to one lot past the largest requested quantity *)
MaxFilled == 1 + CHOOSE q \in Quantities : \A r \in Quantities : r <= q

OrderIds == (1..MaxSends) \cup {FAILED_ORDER_ID}

ExchangeOrderIds == {"x1", "x2"}

NumSends ==
    Cardinality({k \in DOMAIN exec_trace : exec_trace[k].op = "try_reserve_capacity"})

SetExec(ex) ==
    /\ orders' = ex.orders
    /\ order_id_generator' = ex.order_id_generator
    /\ exec_trace' = ex.exec_trace

(* ExecLink.send_order called on the ExecutionLink *)
SendOrder ==
    /\ NumSends < MaxSends
    /\ \E order \in OrderRequests, venue_ok \in BOOLEAN :
       \E limit_result \in TryReserveResults(limit_store, order.instrument_id,
                                             order.side, order.quantity, order.price) :
          LET r == send_order(ExecState, order, limit_result, venue_ok)
          IN  /\ SetExec(r.ex)
              /\ last_result' = r.result
    /\ UNCHANGED <<deltaVars, managerVars, positionVars, feedVars,
                   bookVars, channelVars, limitVars, limit_store, exchange_order_ids>>

NumCancels ==
    Cardinality({k \in DOMAIN exec_trace : exec_trace[k].op = "gem.cancel_order"})

(* ExecLink.cancel_order called on the ExecutionLink (the venue adapter is
   followed through its first cancel request; cancel_requested covers the
   OrderManager's side of later ones) *)
CancelOrder ==
    /\ \E order_id \in OrderIds :
          LET r == cancel_order(ExecState, order_id)
          IN  /\ order_id \in DOMAIN orders => NumCancels = 0
              /\ SetExec(r.ex)
              /\ last_result' = r.result
    /\ UNCHANGED <<deltaVars, managerVars, positionVars, feedVars,
                   bookVars, channelVars, limitVars, limit_store, exchange_order_ids>>

AddExchangeOrderId ==
    /\ \E order_id \in OrderIds, exchange_order_id \in ExchangeOrderIds :
          IF order_id \in DOMAIN orders
          THEN LET r == add_exchange_order_id(orders, exchange_order_ids,
                                              order_id, exchange_order_id)
               IN  /\ orders' = r.orders
                   /\ exchange_order_ids' = r.exchange_order_ids
                   /\ last_result' = Returned("None")
          ELSE /\ UNCHANGED <<orders, exchange_order_ids>>
               /\ last_result' = Raised("KeyError")
    /\ UNCHANGED <<deltaVars, managerVars, positionVars, feedVars,
                   bookVars, channelVars, limitVars, limit_store,
                   order_id_generator, exec_trace>>

AddFillQuantity ==
    /\ \E order_id \in OrderIds, fill_quantity \in Quantities :
          IF order_id \in DOMAIN orders
          THEN /\ orders[order_id].filled_quantity + fill_quantity <= MaxFilled
               /\ orders' = add_fill_quantity(orders, order_id, fill_quantity)
               /\ last_result' = Returned("None")
          ELSE /\ orders' = orders
               /\ last_result' = Raised("KeyError")
    /\ UNCHANGED <<deltaVars, managerVars, positionVars, feedVars,
                   bookVars, channelVars, limitVars, limit_store,
                   exchange_order_ids, order_id_generator, exec_trace>>

CancelRequested ==
    /\ \E order_id \in OrderIds :
          IF order_id \in DOMAIN orders
          THEN /\ orders' = cancel_requested(orders, order_id)
               /\ last_result' = Returned("None")
          ELSE /\ orders' = orders
               /\ last_result' = Raised("KeyError")
    /\ UNCHANGED <<deltaVars, managerVars, positionVars, feedVars,
                   bookVars, channelVars, limitVars, limit_store,
                   exchange_order_ids, order_id_generator, exec_trace>>

OrderCancelled ==
    /\ \E order_id \in OrderIds :
          IF order_id \in DOMAIN orders
          THEN /\ orders' = order_cancelled(orders, order_id)
               /\ last_result' = Returned("None")
          ELSE /\ orders' = orders
               /\ last_result' = Raised("KeyError")
    /\ UNCHANGED <<deltaVars, managerVars, positionVars, feedVars,
                   bookVars, channelVars, limitVars, limit_store,
                   exchange_order_ids, order_id_generator, exec_trace>>

GetOrderIdFromExchangeOrderId ==
    /\ \E exchange_order_id \in ExchangeOrderIds :
          LET r == get_order_id_from_exchange_order_id(exchange_order_ids,
                                                       exchange_order_id)
          IN  /\ om_query' = [op |-> "get_order_id_from_exchange_order_id",
                              key |-> exchange_order_id, result |-> r]
              /\ last_result' = r
    /\ UNCHANGED <<deltaVars, bookVars, channelVars, limitVars, execVars,
                   positionVars, feedVars, other_orders, issued>>

GetExchangeOrderIdFromOrderId ==
    /\ \E order_id \in OrderIds :
          LET r == get_exchange_order_id_from_order_id(orders, order_id)
          IN  /\ om_query' = [op |-> "get_exchange_order_id_from_order_id",
                              key |-> order_id, result |-> r]
              /\ last_result' = r
    /\ UNCHANGED <<deltaVars, bookVars, channelVars, limitVars, execVars,
                   positionVars, feedVars, other_orders, issued>>

InitExec ==
    /\ IdleBook /\ IdleDelta /\ IdleManagers /\ IdlePositions /\ IdleFeed
       /\ IdleChannel /\ IdleLimits
    /\ limit_store \in LimitStoreKinds
    /\ orders = EmptyMap
    /\ exchange_order_ids = EmptyMap
    /\ order_id_generator = 0
    /\ exec_trace = <<>>
    /\ last_result = NoCall

NextExec ==
    \/ SendOrder
    \/ CancelOrder
    \/ AddExchangeOrderId
    \/ AddFillQuantity
    \/ CancelRequested
    \/ OrderCancelled
    \/ GetOrderIdFromExchangeOrderId
    \/ GetExchangeOrderIdFromOrderId

SpecExec == InitExec /\ [][NextExec]_vars

(* ----- specification of two OrderManagers sharing the id generator ----- *)
MaxOrders == 4

(* OrderManager.add_order called on the first OrderManager *)
AddOrder ==
    /\ Len(issued) < MaxOrders
    /\ \E order \in OrderRequests :
          LET a == add_order(orders, order_id_generator, order)
          IN  /\ orders' = a.orders
              /\ order_id_generator' = a.order_id_generator
              /\ issued' = Append(issued, a.order_id)
              /\ last_result' = Returned(a.order_id)
    /\ UNCHANGED <<deltaVars, bookVars, channelVars, limitVars, limit_store,
                   exchange_order_ids, exec_trace, positionVars, feedVars, om_query, other_orders>>

(* OrderManager.add_order called on the second OrderManager *)
AddOrderOther ==
    /\ Len(issued) < MaxOrders
    /\ \E order \in OrderRequests :
          LET a == add_order(other_orders, order_id_generator, order)
          IN  /\ other_orders' = a.orders
              /\ order_id_generator' = a.order_id_generator
              /\ issued' = Append(issued, a.order_id)
              /\ last_result' = Returned(a.order_id)
    /\ UNCHANGED <<deltaVars, bookVars, channelVars, limitVars, limit_store,
                   exchange_order_ids, exec_trace, positionVars, feedVars, om_query, orders>>

InitIds ==
    /\ IdleBook /\ IdleDelta /\ IdleManagers /\ IdlePositions /\ IdleFeed
       /\ IdleChannel /\ IdleExec /\ IdleLimits
    /\ last_result = NoCall

NextIds == AddOrder \/ AddOrderOther

SpecIds == InitIds /\ [][NextIds]_vars

(* ------------------- specification of the Channel ---------------------- *)
(* the instrument lists strategies declare *)
DeclaredLists == {<<"A">>, <<"A", "B">>, <<"B", "B">>}

(* the payloads of the market events *)
SnapshotPayloads ==
    {[bids |-> <<Level(1, 2), Level(2, 1)>>, asks |-> <<Level(3, 1)>>],
     [bids |-> <<Level(1, 1)>>, asks |-> <<Level(3, 2), Level(2, 1)>>]}

DeltaPayloads ==
    {<<[price |-> 2, size_delta |-> -1, side |-> "buy"],
       [price |-> 3, size_delta |-> 1, side |-> "sell"]>>}

TradePayloads == {[price |-> 2, size |-> 1, side |-> "buy"]}

(* the list of n orders strategy strategy_id returns for instrument iid *)
Reply(iid, strategy_id, n) ==
    [j \in 1..n |-> OrderRequest(iid, IF j % 2 = 1 THEN "buy" ELSE "sell",
                                 j, strategy_id + 1)]

RECURSIVE SumLens(_, _)
SumLens(lens, n) == IF n = 0 THEN 0 ELSE lens[n] + SumLens(lens, n - 1)

ChannelState ==
    [instruments |-> instruments, orderbooks |-> orderbooks,
     subscriptions |-> subscriptions]

Run ==
    /\ status' = run(status)
    /\ last_result' = Returned("None")
    /\ UNCHANGED <<deltaVars, managerVars, positionVars, feedVars,
                   bookVars, execVars, limitVars, instruments, orderbooks,
                   subscriptions, strategy_views, strategies, context, trace,
                   n_events>>

Stop ==
    /\ status' = stop(status)
    /\ last_result' = Returned("None")
    /\ UNCHANGED <<deltaVars, managerVars, positionVars, feedVars,
                   bookVars, execVars, limitVars, instruments, orderbooks,
                   subscriptions, strategy_views, strategies, context, trace,
                   n_events>>

AddStrategy ==
    /\ \E declared \in DeclaredLists :
          IF MayAddStrategy(status)
          THEN /\ Len(strategy_views) < MaxStrategies
               /\ LET r == add_strategy(ChannelState, strategy_views, strategies,
                                        declared)
                  IN  /\ instruments' = r.instruments
                      /\ orderbooks' = r.orderbooks
                      /\ subscriptions' = r.subscriptions
                      /\ strategy_views' = r.strategy_views
                      /\ strategies' = r.strategies
               /\ status' = status
               /\ last_result' = Returned("None")
          ELSE /\ status' = throw_channel_error(status)
               /\ last_result' = Raised("ChannelStateError")
               /\ UNCHANGED <<instruments, orderbooks, subscriptions,
                              strategy_views, strategies>>
    /\ UNCHANGED <<deltaVars, managerVars, positionVars, feedVars,
                   bookVars, execVars, limitVars, context, trace,
                   n_events>>

(* the market events as the handlers receive them *)
OrderBookSnapshotEvent(iid, snapshot) ==
    [ev |-> n_events + 1, op |-> "event", instrument_id |-> iid,
     kind |-> "snapshot", snapshot |-> snapshot]

OrderBookUpdateEvent(iid, deltas) ==
    [ev |-> n_events + 1, op |-> "event", instrument_id |-> iid,
     kind |-> "update", deltas |-> deltas]

TradeEvent(iid, trade) ==
    [ev |-> n_events + 1, op |-> "event", instrument_id |-> iid,
     kind |-> "trade", trade |-> trade]

(* the trace once the next event has been delivered *)
Arrived(event) == Append(trace, event)

(* an event for an instrument the OrderBookManager has no book for *)
UnknownInstrument(event) ==
    /\ trace' = Arrived(event)
    /\ last_result' = Raised("KeyError")
    /\ UNCHANGED <<instruments, orderbooks, strategies, context, orders,
                   order_id_generator, exec_trace>>

(* The rest of a handler once the book is updated: dispatch callback to the
   subscribed views and forward what they return.  lens[p] is the length of
   the list the p-th call returns (MaxBatch orders per event in all); at most
   one send_order of the event is denied or fails at the venue. *)
DispatchEvent(iid, callback, event, book) ==
    LET ids == get_strategies_to_run(strategies, iid)
    IN  \E lens \in [1..Len(ids) -> 0..MaxBatch] :
        \E bad \in 0..SumLens(lens, Len(ids)), how \in {"denied", "venue"} :
           /\ SumLens(lens, Len(ids)) <= MaxBatch
           /\ (bad = 0 \/ limit_store = "LimitStore") => how = "denied"
           /\ limit_store = "LimitStore" => bad = 0
           /\ LET replies == [p \in 1..Len(ids) |-> Reply(iid, ids[p], lens[p])]
                  d == run_strategies(Dispatching(ExecState, Arrived(event)), ids, 1,
                                      callback, iid, replies, n_events + 1,
                                      [kind |-> limit_store,
                                       oc |-> [bad |-> bad, how |-> how],
                                       book |-> book, views |-> strategy_views])
              IN  /\ SetExec(d.ex)
                  /\ strategies' = IndexRead(strategies, iid)
                  /\ context' = d.context
                  /\ trace' = d.trace
                  /\ last_result' = d.result

OnOrderBookSnapshotEvent ==
    /\ n_events' = n_events + 1
    /\ \E iid \in Instruments, snapshot \in SnapshotPayloads :
          IF iid \in DOMAIN orderbooks
          THEN /\ orderbooks' = [orderbooks EXCEPT ![iid] =
                                    populate(@, snapshot.bids, snapshot.asks)]
               /\ instruments' = [instruments EXCEPT ![iid].is_tradable = TRUE]
               /\ DispatchEvent(iid, "on_order_book_change",
                                OrderBookSnapshotEvent(iid, snapshot),
                                get_orderbook(orderbooks', iid))
          ELSE UnknownInstrument(OrderBookSnapshotEvent(iid, snapshot))
    /\ UNCHANGED <<deltaVars, managerVars, positionVars, feedVars,
                   bookVars, limitVars, status, subscriptions, strategy_views,
                   limit_store, exchange_order_ids>>

OnOrderBookUpdateEvent ==
    /\ n_events' = n_events + 1
    /\ \E iid \in Instruments, deltas \in DeltaPayloads :
          IF iid \in DOMAIN orderbooks
          THEN /\ orderbooks' = [orderbooks EXCEPT ![iid] = ApplyDeltas(@, deltas)]
               /\ instruments' = instruments
               /\ DispatchEvent(iid, "on_order_book_change",
                                OrderBookUpdateEvent(iid, deltas),
                                get_orderbook(orderbooks', iid))
          ELSE UnknownInstrument(OrderBookUpdateEvent(iid, deltas))
    /\ UNCHANGED <<deltaVars, managerVars, positionVars, feedVars,
                   bookVars, limitVars, status, subscriptions, strategy_views,
                   limit_store, exchange_order_ids>>

OnTradeEvent ==
    /\ n_events' = n_events + 1
    /\ \E iid \in Instruments, trade \in TradePayloads :
          IF iid \in DOMAIN orderbooks
          THEN /\ UNCHANGED <<orderbooks, instruments>>
               /\ DispatchEvent(iid, "on_trade", TradeEvent(iid, trade),
                                get_orderbook(orderbooks', iid))
          ELSE UnknownInstrument(TradeEvent(iid, trade))
    /\ UNCHANGED <<deltaVars, managerVars, positionVars, feedVars,
                   bookVars, limitVars, status, subscriptions, strategy_views,
                   limit_store, exchange_order_ids>>

Init ==
    /\ IdleBook /\ IdleDelta /\ IdleManagers /\ IdlePositions /\ IdleFeed
       /\ IdleChannel /\ IdleLimits
    /\ limit_store \in LimitStoreKinds
    /\ orders = EmptyMap
    /\ exchange_order_ids = EmptyMap
    /\ order_id_generator = 0
    /\ exec_trace = <<>>
    /\ last_result = NoCall

(* the lifecycle calls in any order, and one market event among them (the
   dispatch specification below follows sequences of events) *)
Next ==
    \/ Run
    \/ Stop
    \/ AddStrategy
    \/ (n_events = 0 /\ OnOrderBookSnapshotEvent)
    \/ (n_events = 0 /\ OnOrderBookUpdateEvent)
    \/ (n_events = 0 /\ OnTradeEvent)

Spec == Init /\ [][Next]_vars

(* -------- specification of the event dispatch of a running Channel ----- *)
(* the strategies registered before run(): one declared list per strategy *)
Configurations == UNION {[1..n -> DeclaredLists] : n \in 1..MaxStrategies}

RECURSIVE Registered(_, _)
Registered(config, n) ==
    IF n = 0
    THEN [instruments |-> EmptyMap, orderbooks |-> EmptyMap, subscriptions |-> <<>>,
          strategy_views |-> <<>>, strategies |-> EmptyMap]
    ELSE LET c == Registered(config, n - 1)
         IN  add_strategy([instruments |-> c.instruments,
                           orderbooks |-> c.orderbooks,
                           subscriptions |-> c.subscriptions],
                          c.strategy_views, c.strategies, config[n])

(* add_strategy for each strategy of a configuration, then run() *)
InitDispatch ==
    /\ IdleBook /\ IdleDelta /\ IdleManagers /\ IdlePositions /\ IdleFeed /\ IdleLimits
    /\ \E config \in Configurations :
          LET c == Registered(config, Len(config))
          IN  /\ instruments = c.instruments
              /\ orderbooks = c.orderbooks
              /\ subscriptions = c.subscriptions
              /\ strategy_views = c.strategy_views
              /\ strategies = c.strategies
    /\ status = run("INITIALIZED")
    /\ context = NoneValue
    /\ trace = <<>>
    /\ n_events = 0
    /\ limit_store \in LimitStoreKinds
    /\ orders = EmptyMap
    /\ exchange_order_ids = EmptyMap
    /\ order_id_generator = 0
    /\ exec_trace = <<>>
    /\ last_result = NoCall

NextDispatch ==
    \/ (n_events < MaxEvents /\ OnOrderBookSnapshotEvent)
    \/ (n_events < MaxEvents /\ OnOrderBookUpdateEvent)
    \/ (n_events < MaxEvents /\ OnTradeEvent)

SpecDispatch == InitDispatch /\ [][NextDispatch]_vars

(* ------------------- specification of the LimitStore ------------------- *)
Limits ==
    {Limit(iid, max_position_size, max_nominal_position_size) :
        iid \in Instruments, max_position_size \in 1..MaxLimit,
        max_nominal_position_size \in 1..MaxLimit}

(* the volumes asked for reach one lot past the largest limit *)
Volumes == 1..(MaxLimit + 1)

LimitCall(op, iid, side, volume, price, result) ==
    [op |-> op, instrument_id |-> iid, side |-> side, volume |-> volume,
     price |-> price, result |-> result]

(* an apply_fill call: volume and price are the fill's *)
FillCall(iid, side, reserved_price, reserved_volume, fill_price, fill_volume, result) ==
    [op |-> "apply_fill", instrument_id |-> iid, side |-> side,
     volume |-> fill_volume, price |-> fill_price,
     reserved_volume |-> reserved_volume, reserved_price |-> reserved_price,
     result |-> result]

SetLimit ==
    /\ \E limit \in Limits :
          /\ limits' = set_limit(limits, limit.instrument_id, limit)
          /\ limit_call' = LimitCall("set_limit", limit.instrument_id, "", 0, 0, NoneValue)
    /\ UNCHANGED <<deltaVars, managerVars, positionVars, feedVars,
                   bookVars, channelVars, execVars, last_result>>

(* LimitStore.get_limit: a KeyError for an instrument without a limit *)
GetLimit ==
    /\ \E iid \in Instruments :
          limit_call' = LimitCall("get_limit", iid, "", 0, 0,
                                  IF iid \in DOMAIN limits THEN Returned(limits[iid])
                                  ELSE Raised("KeyError"))
    /\ UNCHANGED <<deltaVars, managerVars, positionVars, feedVars,
                   bookVars, channelVars, execVars, last_result, limits>>

TryReserveCapacity ==
    /\ \E iid \in Instruments, side \in Sides, volume \in Volumes, price \in Prices :
          LET r == try_reserve_capacity(limits, iid, side, volume, price)
          IN  /\ limits' = r.limits
              /\ limit_call' = LimitCall("try_reserve_capacity", iid, side, volume,
                                         price, r.result)
    /\ UNCHANGED <<deltaVars, managerVars, positionVars, feedVars,
                   bookVars, channelVars, execVars, last_result>>

ReleaseReservedCapacity ==
    /\ \E iid \in Instruments, side \in Sides, volume \in Volumes, price \in Prices :
          LET r == release_reserved_capacity(limits, iid, side, volume, price)
          IN  /\ limits' = r.limits
              /\ limit_call' = LimitCall("release_reserved_capacity", iid, side,
                                         volume, price, r.result)
    /\ UNCHANGED <<deltaVars, managerVars, positionVars, feedVars,
                   bookVars, channelVars, execVars, last_result>>

ApplyFill ==
    /\ \E iid \in Instruments, side \in Sides, volume \in Volumes,
          reserved_price \in Prices, fill_price \in Prices :
          LET r == apply_fill(limits, iid, side, reserved_price, volume, fill_price,
                              volume)
          IN  /\ limits' = r.limits
              /\ limit_call' = FillCall(iid, side, reserved_price, volume, fill_price,
                                        volume, r.result)
    /\ UNCHANGED <<deltaVars, managerVars, positionVars, feedVars,
                   bookVars, channelVars, execVars, last_result>>

InitLimits ==
    IdleBook /\ IdleDelta /\ IdleManagers /\ IdlePositions /\ IdleFeed
       /\ IdleChannel /\ IdleExec /\ IdleLimits /\ last_result = NoCall

NextLimits ==
    \/ SetLimit
    \/ GetLimit
    \/ TryReserveCapacity
    \/ ReleaseReservedCapacity
    \/ ApplyFill

SpecLimits == InitLimits /\ [][NextLimits]_vars

(* C1: a try_reserve_capacity whose volume alone exceeds the instrument's
   max_position_size, or whose nominal value (volume * price) alone exceeds
   its max_nominal_position_size, answers allowed = false. *)
C1_ExceedingReservationDenied ==
    (/\ limit_call.op = "try_reserve_capacity"
     /\ limit_call.instrument_id \in DOMAIN limits
     /\ LET limit == limits[limit_call.instrument_id]
        IN  \/ limit_call.volume > limit.max_position_size
            \/ limit_call.volume * limit_call.price > limit.max_nominal_position_size)
    => limit_call.result = LimitCheckResult(FALSE)

(* a try_reserve_capacity was answered: admitted or denied *)
Answered(call) == call.result \in {LimitCheckResult(TRUE), LimitCheckResult(FALSE)}

SameArguments(a, b) ==
    /\ a.instrument_id = b.instrument_id
    /\ a.side = b.side
    /\ a.volume = b.volume
    /\ a.price = b.price

(* C15: a try_reserve_capacity is answered, and when it is admitted and
   followed by release_reserved_capacity with the same arguments, the store is
   left as it was before the reservation: the limits are the same and the
   release reports nothing. *)
C15_ReserveReleaseRoundTrip ==
    [][(/\ limit_call.op = "try_reserve_capacity"
        /\ limit_call'.op = "release_reserved_capacity"
        /\ SameArguments(limit_call, limit_call'))
       => /\ Answered(limit_call)
          /\ limit_call.result = LimitCheckResult(TRUE)
             => (limits' = limits /\ limit_call'.result = NoneValue)]_limitVars

(* C16: after apply_fill with fill_volume = reserved_volume and fill_price #
   reserved_price the realized nominal exposure of the instrument and side
   includes fill_price * fill_volume: a try_reserve_capacity for the same
   instrument and side that follows and whose nominal value, added to
   fill_price * fill_volume, exceeds max_nominal_position_size is denied. *)
C16_FillValuesAreRealized ==
    [][(/\ limit_call.op = "apply_fill"
        /\ limit_call.price # limit_call.reserved_price
        /\ limit_call'.op = "try_reserve_capacity"
        /\ limit_call'.instrument_id = limit_call.instrument_id
        /\ limit_call'.side = limit_call.side
        /\ limit_call.instrument_id \in DOMAIN limits
        /\ limit_call.price * limit_call.volume
               + limit_call'.price * limit_call'.volume
           > limits[limit_call.instrument_id].max_nominal_position_size)
       => limit_call'.result = LimitCheckResult(FALSE)]_limitVars

(* C7: in a book built from the empty book by update_level and adjust_volume
   calls the bids are strictly descending by price, the asks strictly
   ascending (so each price occurs once per side), and every level's volume
   is positive. *)
C7_BookWellFormed ==
    /\ \A i \in 1..(Len(ob.bids) - 1) : ob.bids[i].price > ob.bids[i + 1].price
    /\ \A i \in 1..(Len(ob.asks) - 1) : ob.asks[i].price < ob.asks[i + 1].price
    /\ \A i \in 1..Len(ob.bids) : ob.bids[i].volume > 0
    /\ \A i \in 1..Len(ob.asks) : ob.asks[i].volume > 0

(* ------------------------------ DeltaCache ---------------------------- *)
(* the per-instrument maps DeltaCache creates: {Side.BUY: {}, Side.SELL: {}} *)
EmptySides == [buy |-> EmptyMap, sell |-> EmptyMap]

(* DeltaCache.get_last_size: the stored size or 0; an instrument not seen
   before gets its empty maps *)
get_last_size(cache, instrument_id, side, price) ==
    IF instrument_id \in DOMAIN cache
    THEN [cache |-> cache,
          result |-> IF price \in DOMAIN cache[instrument_id][side]
                     THEN cache[instrument_id][side][price] ELSE 0]
    ELSE [cache |-> Put(cache, instrument_id, EmptySides), result |-> 0]

(* dict.pop(price, None) *)
Pop(map, price) == [x \in DOMAIN map \ {price} |-> map[x]]

(* update_size removing a level only for a size below 0 *)
update_size_keeping_zero(cache, instrument_id, side, price, new_size) ==
    LET seen == IF instrument_id \in DOMAIN cache THEN cache
                ELSE Put(cache, instrument_id, EmptySides)
    IN  [seen EXCEPT ![instrument_id][side] =
             IF new_size < 0 THEN Pop(@, price) ELSE Put(@, price, new_size)]

(* DeltaCache.update_size: a size <= 0 removes the level, another is stored *)
update_size(cache, instrument_id, side, price, new_size) ==
    LET seen == IF instrument_id \in DOMAIN cache THEN cache
                ELSE Put(cache, instrument_id, EmptySides)
    IN  [seen EXCEPT ![instrument_id][side] =
             IF new_size <= 0 THEN Pop(@, price) ELSE Put(@, price, new_size)]

(* get_delta that returns the difference and leaves the cache as it was *)
get_delta_without_update(cache, instrument_id, side, price, new_size) ==
    LET old == get_last_size(cache, instrument_id, side, price)
    IN  [cache |-> old.cache, result |-> new_size - old.result]

(* DeltaCache.get_delta *)
get_delta(cache, instrument_id, side, price, new_size) ==
    LET old == get_last_size(cache, instrument_id, side, price)
    IN  [cache |-> update_size(old.cache, instrument_id, side, price, new_size),
         result |-> new_size - old.result]

(* --------------------------- PositionManager --------------------------- *)
Position(iid, volume, price) == [iid |-> iid, volume |-> volume, price |-> price]

(* Position.get_nominal_value *)
get_nominal_value(position) == position.volume * position.price

(* self.positions[iid] of the defaultdict(dict): a missing instrument gets an
   empty dict *)
PositionsOf(pos, iid) == IF iid \in DOMAIN pos THEN pos ELSE Put(pos, iid, EmptyMap)

(* the sum of f over the keys in keys *)
RECURSIVE SumOver(_, _)
SumOver(f, keys) ==
    IF keys = {} THEN 0
    ELSE LET k == CHOOSE x \in keys : TRUE
         IN  f[k] + SumOver(f, keys \ {k})

(* add_position putting the new volume in the place of the bucket's volume *)
add_position_overwriting(pos, iid, volume, price) ==
    LET seen == PositionsOf(pos, iid)
    IN  [seen EXCEPT ![iid] = Put(@, price, Position(iid, volume, price))]

(* PositionManager.add_position *)
add_position(pos, iid, volume, price) ==
    LET seen == PositionsOf(pos, iid)
    IN  IF price \in DOMAIN seen[iid]
        THEN [seen EXCEPT ![iid][price].volume = @ + volume]
        ELSE [seen EXCEPT ![iid] = Put(@, price, Position(iid, volume, price))]

(* PositionManager.get_total_volume: <<positions', sum>> *)
get_total_volume(pos, iid) ==
    LET seen == PositionsOf(pos, iid)
    IN  [positions |-> seen,
         result |-> SumOver([p \in DOMAIN seen[iid] |-> seen[iid][p].volume],
                            DOMAIN seen[iid])]

(* PositionManager.get_total_nominal_value *)
get_total_nominal_value(pos, iid) ==
    LET seen == PositionsOf(pos, iid)
    IN  [positions |-> seen,
         result |-> SumOver([p \in DOMAIN seen[iid] |->
                                get_nominal_value(seen[iid][p])],
                            DOMAIN seen[iid])]

(* ---------------- specification of the PositionManager ------------------ *)
MaxAdditions == 3
PositionVolumes == {-1, 1, 2}
PositionPrices == {1, 2}

AddPosition ==
    /\ Len(additions) < MaxAdditions
    /\ \E iid \in Instruments, volume \in PositionVolumes, price \in PositionPrices :
          /\ positions' = add_position(positions, iid, volume, price)
          /\ additions' = Append(additions, Position(iid, volume, price))
          /\ last_result' = Returned("None")
    /\ UNCHANGED <<bookVars, channelVars, execVars, limitVars, deltaVars,
                   managerVars, feedVars>>

GetTotalVolume ==
    /\ \E iid \in Instruments :
          LET r == get_total_volume(positions, iid)
          IN  /\ positions' = r.positions
              /\ last_result' = Returned(r.result)
    /\ UNCHANGED <<bookVars, channelVars, execVars, limitVars, deltaVars,
                   managerVars, feedVars, additions>>

GetTotalNominalValue ==
    /\ \E iid \in Instruments :
          LET r == get_total_nominal_value(positions, iid)
          IN  /\ positions' = r.positions
              /\ last_result' = Returned(r.result)
    /\ UNCHANGED <<bookVars, channelVars, execVars, limitVars, deltaVars,
                   managerVars, feedVars, additions>>

InitPositions ==
    /\ IdleBook /\ IdleDelta /\ IdleManagers /\ IdlePositions /\ IdleFeed
    /\ IdleChannel /\ IdleExec /\ IdleLimits
    /\ last_result = NoCall

NextPositions == AddPosition \/ GetTotalVolume \/ GetTotalNominalValue

SpecPositions == InitPositions /\ [][NextPositions]_vars

(* ------------------- specification of the DeltaCache -------------------- *)
(* the prices and sizes the feed handler passes; a size below 0 is what a
   malformed message carries *)
DeltaPrices == {2}
Sizes == {-1, 0, 1, 2}

(* the last call on the DeltaCache and what it returned *)
DeltaCall(op, instrument_id, side, price, size, result) ==
    [op |-> op, instrument_id |-> instrument_id, side |-> side, price |-> price,
     size |-> size, result |-> result]

GetLastSize ==
    /\ \E instrument_id \in Instruments, side \in Sides, price \in DeltaPrices :
          LET r == get_last_size(delta_cache, instrument_id, side, price)
          IN  /\ delta_cache' = r.cache
              /\ delta_ret' = DeltaCall("get_last_size", instrument_id, side, price,
                                        0, r.result)
    /\ UNCHANGED <<bookVars, channelVars, execVars, limitVars, managerVars, positionVars, feedVars,
                   last_result>>

UpdateSize ==
    /\ \E instrument_id \in Instruments, side \in Sides, price \in DeltaPrices,
          new_size \in Sizes :
          /\ delta_cache' = update_size(delta_cache, instrument_id, side, price, new_size)
          /\ delta_ret' = DeltaCall("update_size", instrument_id, side, price,
                                    new_size, 0)
    /\ UNCHANGED <<bookVars, channelVars, execVars, limitVars, managerVars, positionVars, feedVars,
                   last_result>>

GetDelta ==
    /\ \E instrument_id \in Instruments, side \in Sides, price \in DeltaPrices,
          new_size \in Sizes :
          LET r == get_delta(delta_cache, instrument_id, side, price, new_size)
          IN  /\ delta_cache' = r.cache
              /\ delta_ret' = DeltaCall("get_delta", instrument_id, side, price,
                                        new_size, r.result)
    /\ UNCHANGED <<bookVars, channelVars, execVars, limitVars, managerVars, positionVars, feedVars,
                   last_result>>

InitDelta ==
    IdleBook /\ IdleDelta /\ IdleManagers /\ IdlePositions /\ IdleFeed
       /\ IdleChannel /\ IdleExec /\ IdleLimits /\ last_result = NoCall

NextDelta == GetLastSize \/ UpdateSize \/ GetDelta

SpecDelta == InitDelta /\ [][NextDelta]_vars

(* ------------------ ExecutionLink and OrderManager claims -------------- *)
(* the limit store answered this try_reserve_capacity with allowed = false *)
Denied(call) ==
    /\ call.op = "try_reserve_capacity"
    /\ call.result.kind = "LimitCheckResult"
    /\ ~call.result.allowed

(* C8: a send_order whose try_reserve_capacity is denied returns
   FAILED_ORDER_ID (it does not raise), makes no further call (neither the
   venue adapter's send_order nor add_order), and leaves the OrderManager's
   orders and the order id generator as they were. *)
C8_DenialReturnsSentinel ==
    [][(/\ Len(exec_trace') > Len(exec_trace)
        /\ Denied(exec_trace'[Len(exec_trace) + 1]))
       => /\ last_result' = Returned(FAILED_ORDER_ID)
          /\ Len(exec_trace') = Len(exec_trace) + 1
          /\ orders' = orders
          /\ order_id_generator' = order_id_generator]_vars

(* a send_order has been denied and has returned the sentinel *)
C8_Witness ==
    /\ exec_trace # <<>>
    /\ Denied(exec_trace[Len(exec_trace)])
    /\ last_result = Returned(FAILED_ORDER_ID)
    /\ orders = EmptyMap

(* the calls that led to order order_id: try_reserve_capacity answering
   allowed = true, then the venue send returning, then add_order, all for
   the request the order was built from *)
AdmittedSentRecorded(tr, ords, order_id) ==
    \E k \in 3..Len(tr) :
       /\ tr[k].op = "add_order" /\ tr[k].order_id = order_id
       /\ tr[k - 1].op = "gem.send_order" /\ tr[k - 1].ok
       /\ tr[k - 2].op = "try_reserve_capacity"
       /\ tr[k - 2].result = LimitCheckResult(TRUE)
       /\ tr[k - 1].order = tr[k].order /\ tr[k - 2].order = tr[k].order
       /\ ords[order_id].instrument_id = tr[k].order.instrument_id
       /\ ords[order_id].side = tr[k].order.side
       /\ ords[order_id].price = tr[k].order.price
       /\ ords[order_id].quantity = tr[k].order.quantity

(* C9: every Order of the OrderManager was recorded by a send_order that
   first got allowed = true from try_reserve_capacity and then saw the venue
   adapter's send_order return; an Order is created INFLIGHT with
   filled_quantity 0; no step removes an Order. *)
C9_OrdersOnlyAfterAdmissionAndSend ==
    [][/\ DOMAIN orders \subseteq DOMAIN orders'
       /\ \A order_id \in DOMAIN orders' :
             AdmittedSentRecorded(exec_trace', orders', order_id)
       /\ \A order_id \in DOMAIN orders' \ DOMAIN orders :
             /\ orders'[order_id].status = "INFLIGHT"
             /\ orders'[order_id].filled_quantity = 0]_vars

(* an order has been recorded, and later calls have acted on it *)
C9_Witness ==
    \E order_id \in DOMAIN orders :
       /\ AdmittedSentRecorded(exec_trace, orders, order_id)
       /\ orders[order_id].status = "CANCELLED"
       /\ orders[order_id].filled_quantity > 0

LegalTransitions ==
    {<<"INFLIGHT", "ACTIVE">>, <<"ACTIVE", "INFLIGHT_CANCELLED">>,
     <<"INFLIGHT_CANCELLED", "CANCELLED">>, <<"ACTIVE", "FILLED">>,
     <<"ACTIVE", "EXPIRED">>}

(* C10: every change of an order's status is one of INFLIGHT -> ACTIVE,
   ACTIVE -> INFLIGHT_CANCELLED, INFLIGHT_CANCELLED -> CANCELLED,
   ACTIVE -> FILLED, ACTIVE -> EXPIRED. *)
C10_OnlyLegalTransitions ==
    [][\A order_id \in DOMAIN orders \cap DOMAIN orders' :
          \/ orders'[order_id].status = orders[order_id].status
          \/ <<orders[order_id].status, orders'[order_id].status>>
                 \in LegalTransitions]_vars

(* C17: when the venue adapter's send_order fails after the capacity for
   the order was reserved, the reservation is rolled back, so the next call
   the link makes is release_reserved_capacity for that order, and no Order is
   recorded for it. *)
C17_FailedSendReleasesReservation ==
    \A i \in 1..Len(exec_trace) :
        (exec_trace[i].op = "gem.send_order" /\ ~exec_trace[i].ok)
        => /\ i < Len(exec_trace)
           /\ exec_trace[i + 1].op = "release_reserved_capacity"
           /\ exec_trace[i + 1].order = exec_trace[i].order

(* the order's status agrees with its accumulated fills *)
FilledIffComplete(order) ==
    /\ order.status \in {"ACTIVE", "FILLED"}
    /\ order.status = "FILLED" <=> order.filled_quantity = order.quantity

(* C11: an order that was ACTIVE and has since only been filled is FILLED
   exactly when its accumulated filled_quantity equals its quantity, after
   every add_fill_quantity call of the sequence. *)
C11_FilledIffQuantityReached ==
    [][\A order_id \in DOMAIN orders \cap DOMAIN orders' :
          (/\ orders[order_id].exchange_order_id # ""
           /\ FilledIffComplete(orders[order_id])
           /\ orders'[order_id].filled_quantity # orders[order_id].filled_quantity)
          => FilledIffComplete(orders'[order_id])]_vars

(* ---------------------------- Channel claims --------------------------- *)
Registrations == <<instruments, orderbooks, subscriptions, strategy_views, strategies>>

(* C2: add_strategy called on a Channel that has left INITIALIZED (run()
   leaves it RUNNING, and nothing returns it to INITIALIZED) raises
   ChannelStateError, leaves status = ERROR, and adds no instrument, order
   book, subscription, strategy view or routing entry. *)
C2_AddStrategyAfterRunFails ==
    [][(AddStrategy /\ status # "INITIALIZED")
       => /\ last_result' = Raised("ChannelStateError")
          /\ status' = "ERROR"
          /\ Registrations' = Registrations]_vars

(* add_strategy has failed on a Channel holding a strategy registered before
   run() *)
C2_Witness ==
    /\ status = "ERROR"
    /\ last_result = Raised("ChannelStateError")
    /\ Len(strategy_views) = 1

(* C3: once status is ERROR no step changes it. *)
C3_ErrorIsTerminal == [][status = "ERROR" => status' = "ERROR"]_vars

IsCallback(e) == e.op \in {"on_order_book_change", "on_trade"}

IsSend(e) == e.op = "send_order"

(* the callbacks made and the orders forwarded so far *)
Calls(tr) == SelectSeq(tr, LAMBDA e : IsCallback(e) \/ IsSend(e))

(* C4: a market event delivered while status is not RUNNING changes no order
   book, invokes no strategy callback and forwards no order. *)
C4_EventsOnlyWhileRunning ==
    [][(n_events' # n_events /\ status # "RUNNING")
       => /\ orderbooks' = orderbooks
          /\ Calls(trace') = Calls(trace)]_vars

(* the entries tr2 has after those of tr *)
Since(tr2, tr) == SubSeq(tr2, Len(tr) + 1, Len(tr2))

(* the strategies whose declared instruments include iid *)
Subscribed(views, iid) ==
    {sid \in 0..(Len(views) - 1) :
        \E j \in 1..Len(views[sid + 1].instruments) :
           views[sid + 1].instruments[j] = iid}

(* new is what one handler wrote: every callback is followed at once by the
   sends of exactly the orders it returned, in list order *)
RECURSIVE EachBatchSentAtOnce(_)
EachBatchSentAtOnce(new) ==
    IF new = <<>> THEN TRUE
    ELSE LET n == Len(Head(new).returned)
         IN  /\ IsCallback(Head(new))
             /\ Len(new) >= n + 1
             /\ \A j \in 1..n : /\ IsSend(new[j + 1])
                                /\ new[j + 1].order = Head(new).returned[j]
             /\ EachBatchSentAtOnce(SubSeq(new, n + 2, Len(new)))

(* C5: a handler writes the trace of its own event and of no other: what it
   appends is the event, then callbacks and sends all carrying that event's
   number, after everything earlier events left; and when the handler
   returns, every strategy subscribed to the event's instrument (and no
   other) has been called and every order returned has been sent, each batch
   right after its callback. *)
C5_EventsHandledOneByOne ==
    [][n_events' = n_events + 1 =>
         LET new == Since(trace', trace)
         IN  /\ SubSeq(trace', 1, Len(trace)) = trace
             /\ \A k \in 1..Len(trace) : trace[k].ev <= n_events
             /\ Len(new) >= 1 /\ new[1].op = "event"
             /\ \A k \in 1..Len(new) : new[k].ev = n_events'
             /\ \A k \in 2..Len(new) : IsCallback(new[k]) \/ IsSend(new[k])
             /\ last_result'.kind = "return" =>
                   LET calls == SelectSeq(new, IsCallback)
                   IN  /\ {calls[p].strategy : p \in 1..Len(calls)}
                             = Subscribed(strategy_views, new[1].instrument_id)
                       /\ \A p \in 1..Len(calls) :
                             calls[p].instrument_id = new[1].instrument_id
                       /\ EachBatchSentAtOnce(Tail(new))]_vars

(* two events handled, the second by two callbacks, orders sent in both *)
C5_Witness ==
    /\ n_events = 2 /\ last_result.kind = "return"
    /\ \E i, j, k \in DOMAIN trace :
          /\ IsSend(trace[i]) /\ trace[i].ev = 1
          /\ IsCallback(trace[j]) /\ trace[j].ev = 2 /\ trace[j].pos = 2
          /\ IsSend(trace[k]) /\ trace[k].ev = 2 /\ j < k

(* the order requests passed to ExecLink.send_order, in the order passed *)
Forwarded(tr) ==
    LET sends == SelectSeq(tr, IsSend)
    IN  [k \in 1..Len(sends) |-> sends[k].order]

CallbackAt(tr, ev, p) ==
    {k \in DOMAIN tr : IsCallback(tr[k]) /\ tr[k].ev = ev /\ tr[k].pos = p}

(* the lists returned by the callbacks of event ev from dispatch position p
   on, concatenated in dispatch order *)
RECURSIVE ReturnedOfEvent(_, _, _)
ReturnedOfEvent(tr, ev, p) ==
    IF CallbackAt(tr, ev, p) = {} THEN <<>>
    ELSE tr[CHOOSE k \in CallbackAt(tr, ev, p) : TRUE].returned
            \o ReturnedOfEvent(tr, ev, p + 1)

(* the same for the events 1..ev, in arrival order *)
RECURSIVE ReturnedUpTo(_, _)
ReturnedUpTo(tr, ev) ==
    IF ev = 0 THEN <<>>
    ELSE ReturnedUpTo(tr, ev - 1) \o ReturnedOfEvent(tr, ev, 1)

NoSendRaised(tr) == \A k \in DOMAIN tr : IsSend(tr[k]) => tr[k].result.kind = "return"

(* C6: as long as no send_order has raised, the order requests passed to
   send_order are, in the order passed, the concatenation of the lists the
   callbacks returned, by event number, then dispatch position, then list
   position. *)
C6_ForwardedIsConcatenationOfReturned ==
    NoSendRaised(trace) => Forwarded(trace) = ReturnedUpTo(trace, n_events)

(* orders of two strategies and of two events forwarded, one batch of two *)
C6_Witness ==
    /\ NoSendRaised(trace)
    /\ Len(Forwarded(trace)) >= 3
    /\ \E i, j \in DOMAIN trace :
          /\ IsSend(trace[i]) /\ IsSend(trace[j])
          /\ trace[i].ev # trace[j].ev
          /\ trace[i].order.quantity # trace[j].order.quantity
    /\ \E k \in DOMAIN trace : IsCallback(trace[k]) /\ Len(trace[k].returned) = 2

(* ---------------------------- OrderBook claims -------------------------- *)
RECURSIVE TotalVolume(_)
TotalVolume(levels) ==
    IF levels = <<>> THEN 0 ELSE levels[1].volume + TotalVolume(Tail(levels))

(* price times volume summed over taking volume from the front of levels *)
RECURSIVE CostOf(_, _)
CostOf(levels, volume) ==
    IF volume <= 0 \/ levels = <<>> THEN 0
    ELSE Min(volume, levels[1].volume) * levels[1].price
         + CostOf(Tail(levels), volume - Min(volume, levels[1].volume))

(* C14: for every book and every volume v >= 0, impact_price(v, side) is
   None exactly when the side it walks holds less than v in all, and is
   otherwise, without an error, the volume-weighted average price of taking v
   from the best level inward. *)
C14_ImpactPriceNoneIffShort ==
    ob_query.op = "impact_price"
    => LET levels == IF ob_query.side = "buy" THEN ob.asks ELSE ob.bids
       IN  IF TotalVolume(levels) < ob_query.volume
           THEN ob_query.result = NoneValue
           ELSE ob_query.result
                    = Quotient(CostOf(levels, ob_query.volume), ob_query.volume)

(* ---------------------------- DeltaCache claims ------------------------- *)
(* what get_last_size reports *)
LastSize(cache, instrument_id, side, price) ==
    get_last_size(cache, instrument_id, side, price).result

(* the get_delta call a step makes, when its new size is one of sizes,
   returns the new size minus the last size, leaves the last size equal to
   the new size, and the same call made again would return 0 *)
DeltaThenZero(sizes) ==
    (delta_ret'.op = "get_delta" /\ delta_ret'.size \in sizes)
    => LET instrument_id == delta_ret'.instrument_id
           side == delta_ret'.side
           price == delta_ret'.price
           new_size == delta_ret'.size
       IN  /\ delta_ret'.result
                  = new_size - LastSize(delta_cache, instrument_id, side, price)
           /\ LastSize(delta_cache', instrument_id, side, price) = new_size
           /\ get_delta(delta_cache', instrument_id, side, price, new_size).result = 0

(* C12 as stated: for every instrument, side, price and new size n,
   get_delta returns n minus the last size, leaves the last size equal to n,
   and an immediately repeated call returns 0. *)
C12_DeltaThenZeroForEverySize == [][DeltaThenZero(Sizes)]_deltaVars

(* C12 amended: the same for every new size n >= 0. *)
C12_DeltaThenZero == [][DeltaThenZero({n \in Sizes : n >= 0})]_deltaVars

(* get_delta(B, SELL, 2, 2) has just replaced a stored size of 1 *)
C12_Witness ==
    /\ delta_ret = DeltaCall("get_delta", "B", "sell", 2, 2, 1)
    /\ LastSize(delta_cache, "B", "sell", 2) = 2

(* ------------------------- Channel order book claims -------------------- *)
(* the position in the trace of the n-th event *)
EventIndex(n) ==
    CHOOSE i \in 1..Len(trace) : trace[i].op = "event" /\ trace[i].ev = n

Occurrences(levels, l) == Cardinality({i \in 1..Len(levels) : levels[i] = l})

(* the same levels, each as often, in any order *)
SameLevels(a, b) ==
    /\ Len(a) = Len(b)
    /\ \A i \in 1..Len(a) : Occurrences(a, a[i]) = Occurrences(b, a[i])

MaxPrice(levels) ==
    CHOOSE p \in {levels[i].price : i \in 1..Len(levels)} :
        \A i \in 1..Len(levels) : levels[i].price <= p

MinPrice(levels) ==
    CHOOSE p \in {levels[i].price : i \in 1..Len(levels)} :
        \A i \in 1..Len(levels) : p <= levels[i].price

(* C13: after a snapshot event for instrument i, the book of i holds exactly
   the levels of the snapshot; best_bid is its highest bid price, best_ask its
   lowest ask price, midpoint their mean and spread their difference,
   whatever the order of the levels in the event. *)
C13_SnapshotReplacesBook ==
    n_events > 0
    => LET e == trace[EventIndex(n_events)]
       IN  (e.kind = "snapshot" /\ e.instrument_id \in DOMAIN orderbooks)
           => LET book == orderbooks[e.instrument_id]
                  high == MaxPrice(e.snapshot.bids)
                  low == MinPrice(e.snapshot.asks)
              IN  /\ SameLevels(book.bids, e.snapshot.bids)
                  /\ SameLevels(book.asks, e.snapshot.asks)
                  /\ best_bid(book).price = high
                  /\ best_ask(book).price = low
                  /\ midpoint(book) = Quotient(high + low, 2)
                  /\ spread(book) = low - high

(* a second snapshot for A, its asks given from the highest price down, has
   replaced the book the first snapshot left *)
C13_Witness ==
    /\ n_events = 2
    /\ trace[EventIndex(1)].kind = "snapshot"
    /\ trace[EventIndex(1)].instrument_id = "A"
    /\ trace[EventIndex(1)].snapshot.asks = <<Level(3, 1)>>
    /\ trace[EventIndex(2)].kind = "snapshot"
    /\ trace[EventIndex(2)].instrument_id = "A"
    /\ trace[EventIndex(2)].snapshot.asks = <<Level(3, 2), Level(2, 1)>>
    /\ orderbooks["A"] = [bids |-> <<Level(1, 1)>>,
                          asks |-> <<Level(2, 1), Level(3, 2)>>]

(* C18: when send_order raises for an order of a batch, no later order of the
   batch is forwarded and no further strategy is invoked for that event (the
   raising send_order is the last thing the Channel does for the event), and
   the handler ends with that exception. *)
C18_RaisingSendEndsEvent ==
    \A i \in 1..Len(trace) :
        (trace[i].op = "send_order" /\ trace[i].result.kind = "raise")
        => /\ \A j \in (i + 1)..Len(trace) : trace[j].ev # trace[i].ev
           /\ trace[i].ev = n_events => last_result = trace[i].result

(* the first of two orders a strategy returned failed at the venue while a
   second strategy was subscribed to the instrument: one send_order only, no
   second callback *)
C18_Witness ==
    /\ n_events = 1
    /\ Len(trace) = 3
    /\ Len(get_strategies_to_run(strategies, trace[1].instrument_id)) = 2
    /\ trace[2].op = "on_trade" /\ Len(trace[2].returned) = 2
    /\ trace[3].op = "send_order" /\ trace[3].result = Raised("VenueError")
    /\ last_result = Raised("VenueError")

(* ------------------------- Channel lifecycle claims --------------------- *)
StatusChanges == {<<"INITIALIZED", "RUNNING">>, <<"RUNNING", "STOPPED">>}

(* C19: every change of the status is INITIALIZED -> RUNNING, RUNNING ->
   STOPPED or a change into ERROR; in particular a STOPPED Channel never
   becomes RUNNING or INITIALIZED again. *)
C19_StatusChangesAreLegal ==
    [][status' # status
       => (<<status, status'>> \in StatusChanges \/ status' = "ERROR")]_vars

(* the instruments each StrategyView holds a book of *)
ViewBooks == [p \in 1..Len(strategy_views) |-> DOMAIN strategy_views[p].books_map]

(* C20: once the status is no longer INITIALIZED, no step changes the key
   set of the instrument registry, the set of order books, the provider
   subscriptions, the router's instrument -> strategy index or the book set of
   a StrategyView. *)
C20_RegistrationsFrozenAfterStart ==
    [][status # "INITIALIZED"
       => /\ DOMAIN instruments' = DOMAIN instruments
          /\ DOMAIN orderbooks' = DOMAIN orderbooks
          /\ subscriptions' = subscriptions
          /\ strategies' = strategies
          /\ ViewBooks' = ViewBooks]_vars

(* a stopped Channel with two strategies has handled a snapshot event that
   made an instrument tradable and forwarded an order *)
C20_Witness ==
    /\ status = "STOPPED"
    /\ Len(strategy_views) = 2
    /\ n_events = 1
    /\ \E iid \in DOMAIN instruments : instruments[iid].is_tradable
    /\ \E i \in 1..Len(trace) : trace[i].op = "send_order"

(* --------------------------- Channel dispatch claims -------------------- *)
(* the book once the deltas of an update event were applied, one by one *)
RECURSIVE Adjusted(_, _)
Adjusted(book, deltas) ==
    IF deltas = <<>> THEN book
    ELSE Adjusted(adjust_volume(book, Head(deltas).price, Head(deltas).size_delta,
                                Head(deltas).side).book,
                  Tail(deltas))

(* the book of instrument iid once the first n events were processed *)
RECURSIVE BookAfter(_, _)
BookAfter(iid, n) ==
    IF n = 0 THEN EmptyBook
    ELSE LET e == trace[EventIndex(n)]
             before == BookAfter(iid, n - 1)
         IN  IF e.instrument_id # iid THEN before
             ELSE IF e.kind = "snapshot"
             THEN populate(before, e.snapshot.bids, e.snapshot.asks)
             ELSE IF e.kind = "update" THEN Adjusted(before, e.deltas)
             ELSE before

(* C21: the order book a strategy's on_trade is given for instrument i
   reflects every snapshot and update event for i processed before the trade
   event and nothing else. *)
C21_TradeSeesBookOfEarlierEvents ==
    \A i \in 1..Len(trace) :
        trace[i].op = "on_trade"
        => trace[i].book = BookAfter(trace[i].instrument_id, trace[i].ev - 1)

(* on_trade was called for A with the book the snapshot before it left *)
C21_Witness ==
    /\ n_events = 2
    /\ trace[EventIndex(1)].kind = "snapshot"
    /\ trace[EventIndex(1)].instrument_id = "A"
    /\ trace[EventIndex(2)].kind = "trade"
    /\ trace[EventIndex(2)].instrument_id = "A"
    /\ "A" \in DOMAIN orderbooks
    /\ \E i \in 1..Len(trace) :
          /\ trace[i].op = "on_trade"
          /\ trace[i].book.bids # <<>>
          /\ trace[i].book = orderbooks["A"]

(* the instruments a strategy declared *)
Declared(strategy_id) ==
    {strategy_views[strategy_id + 1].instruments[k] :
        k \in 1..Len(strategy_views[strategy_id + 1].instruments)}

(* C24: the context handed to a strategy exposes the order books of the
   instruments that strategy declared and of no other instrument, also once
   the other strategies of the same event have been dispatched. *)
C24_ContextExposesOwnBooksOnly ==
    \A i \in 1..Len(trace) :
        (IsCallback(trace[i]) /\ trace[i].ev = n_events)
        => DOMAIN context.orderbooks \subseteq Declared(trace[i].strategy)

(* a snapshot event for instrument iid is among the events processed *)
SnapshotProcessed(iid) ==
    \E n \in 1..n_events :
        /\ trace[EventIndex(n)].kind = "snapshot"
        /\ trace[EventIndex(n)].instrument_id = iid

(* C23: a registered instrument is tradable exactly when a snapshot event
   for it has been processed: it is not tradable from its registration on,
   becomes tradable with its first snapshot and stays so; update events,
   trade events and snapshots of other instruments do not set it. *)
C23_TradableSinceFirstSnapshot ==
    \A iid \in DOMAIN instruments :
        instruments[iid].is_tradable <=> SnapshotProcessed(iid)

(* A was updated and then got its snapshot, B got none *)
C23_Witness ==
    /\ n_events = 2
    /\ trace[EventIndex(1)].kind = "update"
    /\ trace[EventIndex(1)].instrument_id = "A"
    /\ trace[EventIndex(2)].kind = "snapshot"
    /\ trace[EventIndex(2)].instrument_id = "A"
    /\ {"A", "B"} \subseteq DOMAIN instruments
    /\ instruments["A"].is_tradable
    /\ ~instruments["B"].is_tradable

(* ------------------------------ registration claims --------------------- *)
(* how often x occurs in seq *)
Count(seq, x) == Cardinality({k \in 1..Len(seq) : seq[k] = x})

(* the elements of seq *)
Range(seq) == {seq[k] : k \in 1..Len(seq)}

(* C26: an add_strategy call in INITIALIZED gives every declared instrument
   not yet known one new, empty, not-tradable order book and one provider
   subscription, leaves the books, flags and subscriptions of the known
   instruments as they are, and the view of the strategy holds, for every
   declared instrument, the order book the Channel keeps for it. *)
C26_OneBookAndSubscriptionPerInstrument ==
    [][Len(strategy_views') = Len(strategy_views) + 1
       => LET view == strategy_views'[Len(strategy_views')]
              declared == Range(view.instruments)
          IN  /\ DOMAIN instruments' = DOMAIN instruments \cup declared
              /\ DOMAIN orderbooks' = DOMAIN instruments'
              /\ \A iid \in DOMAIN instruments :
                    /\ instruments'[iid] = instruments[iid]
                    /\ orderbooks'[iid] = orderbooks[iid]
              /\ \A iid \in declared \ DOMAIN instruments :
                    /\ ~instruments'[iid].is_tradable
                    /\ orderbooks'[iid] = EmptyBook
              /\ \A iid \in Instruments :
                    Count(subscriptions', iid)
                        = IF iid \in DOMAIN instruments' THEN 1 ELSE 0
              /\ \A k \in 1..Len(subscriptions) :
                    subscriptions'[k] = subscriptions[k]
              /\ DOMAIN view.books_map = declared
              /\ \A iid \in declared : view.books_map[iid] = iid
              /\ Range(view.books_list) = declared]_vars

(* a second strategy declared A, whose book a snapshot had filled, and B *)
C26_Witness ==
    /\ status = "INITIALIZED"
    /\ Len(strategy_views) = 2
    /\ strategy_views[2].instruments = <<"A", "B">>
    /\ subscriptions = <<"A", "B">>
    /\ orderbooks["A"] # EmptyBook
    /\ orderbooks["B"] = EmptyBook
    /\ instruments["A"].is_tradable
    /\ ~instruments["B"].is_tradable

(* the ids of the strategies that declared iid, in the order they were added *)
Subscribers(iid) ==
    SelectSeq([k \in 1..Len(strategy_views) |-> k - 1],
              LAMBDA id : iid \in Declared(id))

(* the strategy ids of the callbacks of the n-th event, in call order *)
Invoked(n) ==
    LET calls == SelectSeq(trace, LAMBDA e : IsCallback(e) /\ e.ev = n)
    IN  [k \in 1..Len(calls) |-> calls[k].strategy]

(* a send_order of the n-th event raised *)
SendRaised(n) ==
    \E k \in 1..Len(trace) :
        /\ IsSend(trace[k])
        /\ trace[k].ev = n
        /\ trace[k].result.kind = "raise"

(* C27: for every event on a registered instrument i whose sends all
   return, the strategies invoked are exactly those that declared i, each
   once, in the order they were added, also when a declared list names an
   instrument more than once. *)
C27_EachSubscriberInvokedOnce ==
    \A n \in 1..n_events :
        LET iid == trace[EventIndex(n)].instrument_id
        IN  (iid \in DOMAIN orderbooks /\ ~SendRaised(n))
            => Invoked(n) = Subscribers(iid)

(* the send_order calls that returned FAILED_ORDER_ID *)
RejectedSends ==
    {i \in 1..Len(trace) :
        IsSend(trace[i]) /\ trace[i].result = Returned(FAILED_ORDER_ID)}

(* the callback whose response the i-th entry of the trace, a send, belongs to *)
CallbackOf(i) ==
    CHOOSE c \in 1..i :
        /\ IsCallback(trace[c])
        /\ \A j \in (c + 1)..i : IsSend(trace[j])

(* C28 as claimed: after a send_order that returned FAILED_ORDER_ID, no
   remaining order of that strategy response is forwarded. *)
C28_RejectionAbortsBatch ==
    \A i \in RejectedSends :
        ~(/\ i + 1 <= Len(trace)
          /\ IsSend(trace[i + 1])
          /\ trace[i + 1].ev = trace[i].ev)

(* C28 as the code has it: a send_order that returns FAILED_ORDER_ID does
   not end the batch; every remaining order of that strategy response is
   forwarded, in list order, and the handler does not end with an error. *)
C28_RejectionDoesNotAbortBatch ==
    \A i \in RejectedSends :
        LET c == CallbackOf(i)
            returned == trace[c].returned
        IN  /\ trace[i].order = returned[i - c]
            /\ c + Len(returned) <= Len(trace)
            /\ \A q \in (i - c + 1)..Len(returned) :
                  /\ IsSend(trace[c + q])
                  /\ trace[c + q].ev = trace[i].ev
                  /\ trace[c + q].order = returned[q]
            /\ trace[i].ev = n_events => last_result = Returned("None")

(* the first of two orders of one response was rejected, the second was
   forwarded and accepted *)
C28_Witness ==
    \E i \in RejectedSends :
        /\ IsCallback(trace[i - 1])
        /\ Len(trace[i - 1].returned) = 2
        /\ Len(trace) = i + 1
        /\ IsSend(trace[i + 1])
        /\ trace[i + 1].order = trace[i - 1].returned[2]
        /\ trace[i + 1].result.kind = "return"
        /\ trace[i + 1].result # Returned(FAILED_ORDER_ID)

(* ------------------------- update event claims -------------------------- *)
(* the sum of the size deltas for one side and price *)
RECURSIVE DeltaSum(_, _, _)
DeltaSum(deltas, side, price) ==
    IF deltas = <<>> THEN 0
    ELSE (IF Head(deltas).side = side /\ Head(deltas).price = price
          THEN Head(deltas).size_delta ELSE 0)
         + DeltaSum(Tail(deltas), side, price)

(* the levels of one side once every delta for a tracked price is added to
   its level and the levels left without volume are dropped; a delta for a
   price that is not among the levels has no part in it.  (The deltas of one
   event name each side and price once.) *)
LevelsAfterDeltas(levels, deltas, side) ==
    SelectSeq([k \in 1..Len(levels) |->
                  Level(levels[k].price,
                        levels[k].volume + DeltaSum(deltas, side, levels[k].price))],
              LAMBDA l : l.volume > 0)

(* a delta of the event names a price its side of the book does not track *)
HasUntrackedDelta(book, deltas) ==
    \E k \in 1..Len(deltas) :
        \A j \in 1..Len(SideLevels(book, deltas[k].side)) :
            SideLevels(book, deltas[k].side)[j].price # deltas[k].price

(* C29: an update event on a registered instrument leaves the book as the
   deltas for tracked prices make it, a delta for an untracked price changing
   nothing and stopping nothing; the handler raises nothing unless a
   send_order does, and on_order_book_change is dispatched with that book to
   the subscribed strategies. *)
C29_UntrackedDeltaIsSkipped ==
    [][(/\ n_events' = n_events + 1
        /\ trace'[Len(trace) + 1].kind = "update"
        /\ trace'[Len(trace) + 1].instrument_id \in DOMAIN orderbooks)
       => LET e == trace'[Len(trace) + 1]
              iid == e.instrument_id
              ids == Subscribers(iid)
          IN  /\ orderbooks'[iid].bids
                    = LevelsAfterDeltas(orderbooks[iid].bids, e.deltas, "buy")
              /\ orderbooks'[iid].asks
                    = LevelsAfterDeltas(orderbooks[iid].asks, e.deltas, "sell")
              /\ last_result'.kind = "raise"
                    => /\ IsSend(trace'[Len(trace')])
                       /\ trace'[Len(trace')].result = last_result'
              /\ ids # <<>>
                    => /\ trace'[Len(trace) + 2].op = "on_order_book_change"
                       /\ trace'[Len(trace) + 2].strategy = ids[1]
                       /\ trace'[Len(trace) + 2].book = orderbooks'[iid]
              /\ last_result'.kind = "return"
                    => \A s \in Range(ids) :
                          \E k \in (Len(trace) + 2)..Len(trace') :
                              /\ trace'[k].op = "on_order_book_change"
                              /\ trace'[k].strategy = s
                              /\ trace'[k].book = orderbooks'[iid]]_vars

(* the update of A named the untracked bid price 2 first, the ask at 3 was
   raised all the same and two strategies were told *)
C29_Witness ==
    /\ n_events = 2
    /\ trace[EventIndex(1)].kind = "snapshot"
    /\ trace[EventIndex(1)].instrument_id = "A"
    /\ trace[EventIndex(2)].kind = "update"
    /\ trace[EventIndex(2)].instrument_id = "A"
    /\ "A" \in DOMAIN orderbooks
    /\ HasUntrackedDelta(populate(EmptyBook, trace[EventIndex(1)].snapshot.bids,
                                  trace[EventIndex(1)].snapshot.asks),
                         trace[EventIndex(2)].deltas)
    /\ orderbooks["A"] = [bids |-> <<Level(1, 1)>>,
                          asks |-> <<Level(2, 1), Level(3, 3)>>]
    /\ Len(trace) = EventIndex(2) + 2
    /\ trace[Len(trace)].op = "on_order_book_change"
    /\ last_result = Returned("None")

(* --------------------------- OrderBook update claims -------------------- *)
(* the levels at price, and the others, in list order *)
LevelsAt(levels, price) == SelectSeq(levels, LAMBDA l : l.price = price)

LevelsNotAt(levels, price) == SelectSeq(levels, LAMBDA l : l.price # price)

PricesOf(levels) == [k \in 1..Len(levels) |-> levels[k].price]

OtherSide(side) == IF side = "buy" THEN "sell" ELSE "buy"

(* C30: adjust_volume(price, delta, side) on a tracked price returns true,
   sets that level's volume to the old volume + delta, or removes the level
   when that is <= 0, and leaves every other level and the other side as they
   were; on an untracked price it returns false and leaves the book as it
   was. *)
C30_AdjustVolume ==
    [][ob_query'.op = "adjust_volume"
       => LET q == ob_query'
              old == SideLevels(ob, q.side)
              new == SideLevels(ob', q.side)
              at == LevelsAt(old, q.price)
          IN  IF at = <<>>
              THEN ob_ret' = "False" /\ ob' = ob
              ELSE /\ ob_ret' = "True"
                   /\ SideLevels(ob', OtherSide(q.side))
                         = SideLevels(ob, OtherSide(q.side))
                   /\ LevelsNotAt(new, q.price) = LevelsNotAt(old, q.price)
                   /\ IF at[1].volume + q.volume_delta <= 0
                      THEN LevelsAt(new, q.price) = <<>>
                      ELSE /\ LevelsAt(new, q.price)
                                = <<Level(q.price, at[1].volume + q.volume_delta)>>
                           /\ PricesOf(new) = PricesOf(old)]_vars

(* the bid at 2 was taken down to nothing and went, the bids around it and
   the ask stayed *)
C30_Witness ==
    /\ ob_query = [op |-> "adjust_volume", price |-> 2, volume_delta |-> -1,
                   side |-> "buy"]
    /\ ob_ret = "True"
    /\ PricesOf(ob.bids) = <<3, 1>>
    /\ ob.asks # <<>>

(* --------------------------- OrderManager claims ------------------------ *)
(* the key of the last lookup has no mapping *)
Unmapped ==
    IF om_query.op = "get_order_id_from_exchange_order_id"
    THEN om_query.key \notin DOMAIN exchange_order_ids
    ELSE \/ om_query.key \notin DOMAIN orders
         \/ orders[om_query.key].exchange_order_id = ""

(* C25: a lookup by an order id or an exchange order id that has no mapping
   ends in an error, never in a returned value. *)
C25_UnmappedLookupRaises ==
    (om_query # NoQuery /\ Unmapped) => om_query.result.kind = "raise"

(* C22: the ids add_order returns grow strictly, whichever OrderManager is
   asked; they are unique among the orders of all OrderManagers and none is
   FAILED_ORDER_ID. *)
C22_OrderIdsIncrease ==
    /\ \A j, k \in 1..Len(issued) : j < k => issued[j] < issued[k]
    /\ \A k \in 1..Len(issued) :
          /\ issued[k] # FAILED_ORDER_ID
          /\ issued[k] \in DOMAIN orders \cup DOMAIN other_orders
    /\ DOMAIN orders \cap DOMAIN other_orders = {}
    /\ Cardinality(DOMAIN orders \cup DOMAIN other_orders) = Len(issued)

(* both OrderManagers handed out ids in turn *)
C22_Witness ==
    /\ Len(issued) = MaxOrders
    /\ DOMAIN orders = {1, 3}
    /\ DOMAIN other_orders = {2, 4}

(* the prices of one side are in that side's order, each once *)
InPriceOrder(levels, side) ==
    \A i \in 1..(Len(levels) - 1) :
        IF side = "buy" THEN levels[i].price > levels[i + 1].price
                        ELSE levels[i].price < levels[i + 1].price

(* C31: update_level(price, volume, side) with volume > 0 leaves exactly one
   level at that price on that side, with that volume, at its sorted
   position; with volume <= 0 it leaves no level at that price on that side;
   all other levels and the other side stay as they were. *)
C31_UpdateLevel ==
    [][ob_query'.op = "update_level"
       => LET q == ob_query'
              old == SideLevels(ob, q.side)
              new == SideLevels(ob', q.side)
          IN  /\ SideLevels(ob', OtherSide(q.side))
                    = SideLevels(ob, OtherSide(q.side))
              /\ LevelsNotAt(new, q.price) = LevelsNotAt(old, q.price)
              /\ InPriceOrder(new, q.side)
              /\ LevelsAt(new, q.price)
                    = IF q.volume > 0 THEN <<Level(q.price, q.volume)>>
                                      ELSE <<>>]_vars

(* C35: with the bids or the asks empty, spread() and spread_bps() return 0,
   midpoint() returns None, and none of them raises. *)
C35_QueriesOnOneSidedBook ==
    (ob.bids = <<>> \/ ob.asks = <<>>)
    => /\ ob_query.op \in {"spread", "spread_bps"} => ob_query.result = Returned(0)
       /\ ob_query.op = "midpoint" => ob_query.result = Returned(NoneValue)

(* C36: the id mapping is bidirectional: the lookup of exchange id e answers
   order o exactly when the lookup of order o answers e. *)
C36_IdMappingBidirectional ==
    \A e \in ExchangeOrderIds, o \in DOMAIN orders :
        (/\ e \in DOMAIN exchange_order_ids
         /\ get_order_id_from_exchange_order_id(exchange_order_ids, e).value = o)
        <=> get_exchange_order_id_from_order_id(orders, o).value = e

(* C39: every order keeps 0 <= filled_quantity <= quantity, and an order
   that is FILLED or CANCELLED takes no further fill. *)
C39_FillsStayWithinQuantity ==
    [][\A o \in DOMAIN orders' :
          /\ 0 <= orders'[o].filled_quantity
          /\ orders'[o].filled_quantity <= orders'[o].quantity
          /\ (o \in DOMAIN orders /\ orders[o].status \in {"FILLED", "CANCELLED"})
                => orders'[o].filled_quantity = orders[o].filled_quantity]_vars

(* C40: an order request is passed to send_order only for an instrument
   that is tradable, that is, whose snapshot was processed in that event or
   an earlier one. *)
C40_NoOrderForUntradableInstrument ==
    \A k \in 1..Len(trace) :
        IsSend(trace[k])
        => \E n \in 1..trace[k].ev :
              /\ trace[EventIndex(n)].kind = "snapshot"
              /\ trace[EventIndex(n)].instrument_id = trace[k].order.instrument_id

(* --------------------------- DeltaCache entries ------------------------- *)
(* the sizes the cache stores, each with its instrument, side and price *)
Entries(cache) ==
    {<<i, side, price, cache[i][side][price]>> :
        <<i, side, price>> \in
            {t \in (DOMAIN cache) \X Sides \X DeltaPrices :
                t[3] \in DOMAIN cache[t[1]][t[2]]}}

(* the entries of the level the call named, and of the other levels *)
EntriesAt(cache, call) ==
    {e \in Entries(cache) :
        e[1] = call.instrument_id /\ e[2] = call.side /\ e[3] = call.price}

(* C34: the DeltaCache stores no size <= 0: update_size and get_delta leave
   at the level they name the new size when it is > 0 and no entry otherwise,
   and every other level as it was; get_last_size changes no stored size and
   returns the stored size of the level, 0 when the level has no entry (it
   was never stored, or the last size stored for it was <= 0). *)
C34_NoEmptyLevelCached ==
    [][LET call == delta_ret'
       IN  /\ \A e \in Entries(delta_cache') : e[4] > 0
           /\ call.op \in {"update_size", "get_delta"}
                 => /\ EntriesAt(delta_cache', call)
                          = IF call.size > 0
                            THEN {<<call.instrument_id, call.side, call.price,
                                    call.size>>}
                            ELSE {}
                    /\ Entries(delta_cache') \ EntriesAt(delta_cache', call)
                          = Entries(delta_cache) \ EntriesAt(delta_cache, call)
           /\ call.op = "get_last_size"
                 => /\ Entries(delta_cache') = Entries(delta_cache)
                    /\ IF EntriesAt(delta_cache, call) = {}
                       THEN call.result = 0
                       ELSE <<call.instrument_id, call.side, call.price,
                              call.result>> \in Entries(delta_cache)]_deltaVars

(* the bid of A went out with a size of 0 while its ask stayed cached, and
   get_last_size then answered 0 for the bid *)
C34_Witness ==
    /\ delta_ret = DeltaCall("get_last_size", "A", "buy", 2, 0, 0)
    /\ Entries(delta_cache) = {<<"A", "sell", 2, 1>>}

(* -------------------------- PositionManager claims ---------------------- *)
(* the additions made for instrument iid *)
AdditionsFor(iid) == SelectSeq(additions, LAMBDA a : a.iid = iid)

RECURSIVE SumVolumes(_)
SumVolumes(adds) ==
    IF adds = <<>> THEN 0 ELSE Head(adds).volume + SumVolumes(Tail(adds))

RECURSIVE SumNominals(_)
SumNominals(adds) ==
    IF adds = <<>> THEN 0
    ELSE Head(adds).volume * Head(adds).price + SumNominals(Tail(adds))

(* C37: get_total_volume(i) is the sum of the signed volumes added for i,
   get_total_nominal_value(i) the sum of volume * price over the additions
   for i, and i has one bucket per distinct price added for it; additions for
   another instrument are no part of either. *)
C37_TotalsAreSumsOfAdditions ==
    \A iid \in Instruments :
        /\ get_total_volume(positions, iid).result = SumVolumes(AdditionsFor(iid))
        /\ get_total_nominal_value(positions, iid).result
              = SumNominals(AdditionsFor(iid))
        /\ DOMAIN PositionsOf(positions, iid)[iid]
              = {AdditionsFor(iid)[k].price : k \in 1..Len(AdditionsFor(iid))}

(* A was bought twice at 1 and sold once at 2, B not at all *)
C37_Witness ==
    /\ Len(additions) = 3
    /\ AdditionsFor("B") = <<>>
    /\ "A" \in DOMAIN positions
    /\ DOMAIN positions["A"] = {1, 2}
    /\ positions["A"][1].volume = 3
    /\ positions["A"][2].volume = -1
    /\ get_total_volume(positions, "A").result = 2
    /\ get_total_nominal_value(positions, "A").result = 1

(* ------- specification of the Polymarket feed adapter and its Channel --- *)
(* PolymarketIml with its DeltaCache, and a running Channel subscribed to
   token A for one strategy that answers every callback with no order.  What
   the adapter emits goes to the consumer's handler of that kind of event
   (MarketDataConsumer).  feed is the book of token A as the messages so far
   describe it: feed.sizes[side][price], feed.phase tells whether the
   messages were one book followed by price changes only, and feed.n is their
   number. *)
FeedPrices == {1, 2}
FeedSizes == {0, 1, 2}
(* the number of messages followed; feed.n counts them *)
MaxMessages == 4

FeedLevel(price, size) == [price |-> price, size |-> size]

(* the book messages: bids and asks as the venue lists them *)
BookMessages ==
    [bids : {<<>>, <<FeedLevel(1, 1)>>, <<FeedLevel(2, 2), FeedLevel(1, 1)>>,
             <<FeedLevel(1, 0)>>},
     asks : {<<>>, <<FeedLevel(2, 1)>>}]

PriceChange(side, price, size) ==
    [token_id |-> "A", side |-> side, price |-> price, size |-> size]

(* the price_change messages: one changed level, or a bid and an ask *)
PriceChangeMessages ==
    {<<PriceChange(side, price, size)>> :
        side \in Sides, price \in FeedPrices, size \in FeedSizes}
    \cup {<<PriceChange("buy", 1, 2), PriceChange("sell", 2, 0)>>}

NoSizes == [side \in Sides |-> [price \in FeedPrices |-> 0]]

(* the sizes a list of levels gives one side, a later entry for a price
   replacing an earlier one *)
RECURSIVE ListedSizes(_, _)
ListedSizes(sizes, levels) ==
    IF levels = <<>> THEN sizes
    ELSE ListedSizes([sizes EXCEPT ![Head(levels).price] = Head(levels).size],
                     Tail(levels))

(* the loops of handle_order_book_summary_event, lines 99-102, for one side *)
RECURSIVE CacheLevels(_, _, _, _)
CacheLevels(cache, token_id, side, levels) ==
    IF levels = <<>> THEN cache
    ELSE CacheLevels(update_size(cache, token_id, side, Head(levels).price,
                                 Head(levels).size),
                     token_id, side, Tail(levels))

(* order_book_summary_event_to_market_event: the levels as listed *)
SnapshotLevels(levels) ==
    [k \in 1..Len(levels) |-> Level(levels[k].price, levels[k].size)]

(* the loop of handle_price_change_event, lines 116-130: the cache after it
   and the deltas of the update event *)
RECURSIVE PriceChangeDeltas(_, _, _)
PriceChangeDeltas(cache, changes, deltas) ==
    IF changes = <<>> THEN [cache |-> cache, deltas |-> deltas]
    ELSE LET pc == Head(changes)
             r == get_delta(cache, pc.token_id, pc.side, pc.price, pc.size)
         IN  PriceChangeDeltas(r.cache, Tail(changes),
                               Append(deltas, [price |-> pc.price,
                                               size_delta |-> r.result,
                                               side |-> pc.side]))

(* the context the one subscribed view hands to its strategy *)
Notified(iid) ==
    context' = to_strategy_context(strategy_views[1], build_context(EmptyMap))

HandleOrderBookSummaryEvent ==
    /\ feed.n < MaxMessages
    /\ \E msg \in BookMessages :
          /\ delta_cache' = CacheLevels(CacheLevels(delta_cache, "A", "buy", msg.bids),
                                        "A", "sell", msg.asks)
          /\ orderbooks' = [orderbooks EXCEPT !["A"] =
                               populate(@, SnapshotLevels(msg.bids),
                                        SnapshotLevels(msg.asks))]
          /\ instruments' = [instruments EXCEPT !["A"].is_tradable = TRUE]
          /\ Notified("A")
          /\ feed' = [sizes |-> [buy |-> ListedSizes(NoSizes["buy"], msg.bids),
                                 sell |-> ListedSizes(NoSizes["sell"], msg.asks)],
                      phase |-> IF feed.phase = "start" THEN "book" ELSE "mixed",
                      n |-> feed.n + 1]
    /\ last_result' = Returned("None")
    /\ UNCHANGED <<bookVars, execVars, limitVars, managerVars, positionVars,
                   delta_ret, status, subscriptions, strategy_views, strategies,
                   trace, n_events>>

HandlePriceChangeEvent ==
    /\ feed.n < MaxMessages
    /\ \E changes \in PriceChangeMessages :
          LET r == PriceChangeDeltas(delta_cache, changes, <<>>)
          IN  /\ delta_cache' = r.cache
              /\ orderbooks' = [orderbooks EXCEPT !["A"] = ApplyDeltas(@, r.deltas)]
              /\ Notified("A")
              /\ feed' = [sizes |-> [side \in Sides |->
                                       ListedSizes(feed.sizes[side],
                                           SelectSeq(changes,
                                                     LAMBDA pc : pc.side = side))],
                          phase |-> IF feed.phase = "book" THEN "book" ELSE "mixed",
                          n |-> feed.n + 1]
    /\ last_result' = Returned("None")
    /\ UNCHANGED <<bookVars, execVars, limitVars, managerVars, positionVars,
                   delta_ret, status, instruments, subscriptions, strategy_views,
                   strategies, trace, n_events>>

HandleLastTradePriceEvent ==
    /\ feed.n < MaxMessages
    /\ \E side \in Sides, price \in FeedPrices, size \in FeedSizes \ {0} :
          delta_cache' = update_size(delta_cache, "A", side, price, size)
    /\ Notified("A")
    /\ feed' = [feed EXCEPT !.phase = "mixed", !.n = @ + 1]
    /\ last_result' = Returned("None")
    /\ UNCHANGED <<bookVars, execVars, limitVars, managerVars, positionVars,
                   delta_ret, status, instruments, orderbooks, subscriptions,
                   strategy_views, strategies, trace, n_events>>

InitFeed ==
    /\ IdleBook /\ IdleDelta /\ IdleManagers /\ IdlePositions /\ IdleExec
    /\ IdleLimits
    /\ LET c == Registered(<<(<<"A">>)>>, 1)
       IN  /\ instruments = c.instruments
           /\ orderbooks = c.orderbooks
           /\ subscriptions = c.subscriptions
           /\ strategy_views = c.strategy_views
           /\ strategies = c.strategies
    /\ status = run("INITIALIZED")
    /\ context = NoneValue
    /\ trace = <<>>
    /\ n_events = 0
    /\ feed = [sizes |-> NoSizes, phase |-> "start", n |-> 0]
    /\ last_result = NoCall

NextFeed ==
    \/ HandleOrderBookSummaryEvent
    \/ HandlePriceChangeEvent
    \/ HandleLastTradePriceEvent

SpecFeed == InitFeed /\ [][NextFeed]_vars

(* ------------------------------ feed claims ----------------------------- *)
(* the volume the levels of one side hold at price *)
RECURSIVE VolumeAt(_, _)
VolumeAt(levels, price) ==
    IF levels = <<>> THEN 0
    ELSE (IF Head(levels).price = price THEN Head(levels).volume ELSE 0)
         + VolumeAt(Tail(levels), price)

(* C32: every order book of the Channel has its bids in descending and its
   asks in ascending price order, one level per price and side at most, and
   no level with a volume <= 0. *)
C32_ChannelBooksWellFormed ==
    \A iid \in DOMAIN orderbooks :
        /\ InPriceOrder(orderbooks[iid].bids, "buy")
        /\ InPriceOrder(orderbooks[iid].asks, "sell")
        /\ \A side \in Sides :
              \A k \in 1..Len(SideLevels(orderbooks[iid], side)) :
                  SideLevels(orderbooks[iid], side)[k].volume > 0

(* C33: after a book message followed by price_change messages only, the
   Channel's book holds at every price and side the size the feed reported
   last for that level, no volume where that size is 0. *)
C33_BookFollowsFeed ==
    feed.phase = "book"
    => \A side \in Sides, price \in FeedPrices :
          VolumeAt(SideLevels(orderbooks["A"], side), price)
              = feed.sizes[side][price]

(* C38: after any sequence of book, price_change and last_trade_price
   messages the DeltaCache's last size of every level is the size of that
   level in the feed's current book. *)
C38_CacheFollowsFeed ==
    \A side \in Sides, price \in FeedPrices :
        LastSize(delta_cache, "A", side, price) = feed.sizes[side][price]
====
